---- MODULE Spec2Model ----
(***************************************************************************)
(* Model of the VIQRC Enhanced content scripts (event-page.js, content.js) *)
(* The module holds several state machines over one set of variables:      *)
(*   SpecRetry  - fetchWithRetry, the rate-limited API client              *)
(*   SpecStore  - the Settings Store shared by the event page and the      *)
(*                skills page (localStorage key vex-skills-enhancer-...)   *)
(*   SpecCapture - the event page whose teams table is rendered late       *)
(*   SpecTable  - buildEnhancedTable's merge of roster and ranking map     *)
(*   SpecMatch  - fetchMatchData's selection of the retained matches       *)
(*   SpecBatch  - the batched per-team fetches of fetchAllMatchAverages    *)
(*                and fetchAllSeasonAwards                                 *)
(*   SpecSkills - fetchSkillsData and fetchEventSkillsData filling the     *)
(*                ranking map                                              *)
(*   SpecPercentile - the custom table of the skills page under filters    *)
(*                and search, and getPercentile                            *)
(* Each specification leaves the variables of the others unchanged.        *)
(***************************************************************************)
EXTENDS Integers, Sequences, FiniteSets, TLC

VARIABLES
  \* ---- fetchWithRetry ----
  fwrPc,        \* "idle" | "fetching" | "sleeping" | "returned" | "threw"
  attempt,      \* the loop variable of fetchWithRetry
  lastError,    \* the local lastError ("undefined" until a fetch rejects)
  outcomes,     \* outcome of every fetch call so far, in call order
  callTimes,    \* time (ms) at which each fetch call was issued
  delays,       \* delay handed to every setTimeout so far, in order
  now,          \* current time in ms
  timerAt,      \* time at which the pending setTimeout fires
  fwrResult,    \* the response returned, or the error thrown
  \* ---- Settings Store, event page and skills page ----
  storage,      \* content of localStorage[CONFIG.storageKey]
  evOpen,       \* event page: init has created the capture button
  competitionId,\* event page: getCompetitionId() of the loaded page
  eventTeams,   \* event page: the module variable eventTeams
  pageRoster,   \* event page: the roster the page has rendered by now
  clearVisible, \* event page: the Clear button of the token is displayed
  skOpen,       \* skills page: init has run and the panel exists
  settings,     \* skills page: the module variable settings
  lastOp,       \* the handler that ran last, its input and whether it threw
  lastInput,    \* the team field's content when the last handler was Add
  skRows,       \* skills page: the table shown and the class of each row
  evRows,       \* event page: the class of each row of the enhanced table
  \* ---- buildEnhancedTable (event page) ----
  skillsData,   \* the module variable skillsData: null or a Map by team number
  matchAverages,\* the module variable matchAverages: null or a Map
  sortColumn,   \* the module variable sortColumn
  sortDirection,\* the module variable sortDirection
  sectionFound, \* the page has the section the table is put into
  mergedData,   \* the rows of the table built last (none before the first)
  \* ---- fetchMatchData (event page) ----
  fmPc,         \* "idle" | "fetching" | "done" | "failed" (null, no data)
  teamId,       \* the argument teamId (0 when it is missing)
  eventCodeFilter, \* the argument eventCodeFilter ("" when it is null)
  matches,      \* data.data of the response: the team's matches of the season
  recentMatches,\* the retained matches, as positions in matches
  fmResult,     \* what fetchMatchData returned
  \* ---- fetchAllMatchAverages, fetchAllSeasonAwards (event page) ----
  batchOp,      \* which of the two operations runs
  bPc,          \* "idle" | "batch" | "delay" | "returned"
  bI,           \* the loop variable i
  bTeams,       \* the argument teams: for each team whether it has a teamId
  bState,       \* per team: "waiting" | "skipped" | "pending" | "value" | "none" | "threw"
  bIssued,      \* the teams whose fetch was issued, in issue order
  bMap,         \* the keys of the result map (matchAverages, eventAwards)
  \* ---- fetchSkillsData, fetchEventSkillsData (event page) ----
  sfMode,       \* "global" (fetchSkillsData) | "event" (fetchEventSkillsData)
  sfPc,         \* "idle" | "request1" | "request2" | "returned"
  sfEventId,    \* the argument eventId (0 when it is missing)
  sfResponses,  \* what the server answers to the requests, in order
  sfReturn,     \* the boolean returned
  \* ---- custom table of the skills page, getPercentile ----
  pPage,        \* the page the script runs on: "skills" | "event"
  allData,      \* skills page: the module variable allData (null or a list)
  clientFilters,\* skills page: what getClientFilters reads from the page
  filteredData, \* skills page: the module variable filteredData, ranked
  customTable,  \* skills page: the rows of the custom table
  skStats,      \* skills page: what updateStats wrote into the panel
  gpCall,       \* event page: the last call of getPercentile and its value
  pOp,          \* the handler of this part that ran last
  \* ---- init of the event page ----
  iPc,          \* the position of init
  iOutcomes,    \* per kind of request, how the requests made so far ended
  iEventId,     \* init's local eventId (0: null)
  eventFinalized, \* the module variable eventFinalized
  iRanking,     \* the fetcher that filled skillsData last: "none" | "event" | "global"
  captureButton,\* whether createCaptureButton has run
  iUncaught,    \* whether an exception left init
  \* ---- filter listeners and fetchAllSkillsData of the skills page ----
  fFilters,     \* the values of the post_season and grade_level controls
  debounceTimer,\* the one timer of setupFilterListeners: "none" | "fetch" | "refresh"
  fChanges,     \* how many filter changes the user has made
  fRequests,    \* the filter values of the requests issued, in issue order
  fAnswers,     \* per request issued: "pending" | "ok" | "error"
  fStale,       \* a server-side filter changed and no request was issued since
  fHeld         \* the request whose response allData and the table hold (0: none)

retryVars == <<fwrPc, attempt, lastError, outcomes, callTimes, delays, now, timerAt, fwrResult>>

storeVars == <<storage, evOpen, competitionId, eventTeams, pageRoster, clearVisible, skOpen, settings, lastOp,
               lastInput, skRows, evRows>>

tableVars == <<skillsData, matchAverages, sortColumn, sortDirection, sectionFound, mergedData>>

matchVars == <<fmPc, teamId, eventCodeFilter, matches, recentMatches, fmResult>>

batchVars == <<batchOp, bPc, bI, bTeams, bState, bIssued, bMap>>

skillVars == <<sfMode, sfPc, sfEventId, sfResponses, sfReturn>>

percentileVars ==
  <<pPage, allData, clientFilters, filteredData, customTable, skStats, gpCall, pOp>>

initVars == <<iPc, iOutcomes, iEventId, eventFinalized, iRanking, captureButton, iUncaught>>

filterVars == <<fFilters, debounceTimer, fChanges, fRequests, fAnswers, fStale, fHeld>>

vars == <<retryVars, storeVars, tableVars, matchVars, batchVars, skillVars, percentileVars,
          initVars, filterVars>>

\* what the actions of one part leave unchanged
exceptRetry == <<storeVars, tableVars, matchVars, batchVars, skillVars, percentileVars,
                 initVars, filterVars>>
exceptStore == <<retryVars, tableVars, matchVars, batchVars, skillVars, percentileVars,
                 initVars, filterVars>>
exceptTable == <<retryVars, storeVars, matchVars, batchVars, skillVars, percentileVars,
                 initVars, filterVars>>
exceptMatch == <<retryVars, storeVars, tableVars, batchVars, skillVars, percentileVars,
                 initVars, filterVars>>
exceptBatch == <<retryVars, storeVars, tableVars, matchVars, skillVars, percentileVars,
                 initVars, filterVars>>
\* the fetchers of the ranking map write skillsData
exceptSkills == <<retryVars, storeVars, matchVars, batchVars, percentileVars,
                  initVars, filterVars,
                  matchAverages, sortColumn, sortDirection, sectionFound, mergedData>>
exceptPercentile == <<retryVars, storeVars, tableVars, matchVars, batchVars, skillVars,
                      initVars, filterVars>>
exceptFilter == <<retryVars, storeVars, tableVars, matchVars, batchVars, skillVars,
                  percentileVars, initVars>>

(***************************************************************************)
(*                      fetchWithRetry (event-page.js)                     *)
(***************************************************************************)

\* default value of the parameter maxRetries
maxRetries == 3

\* largest Retry-After value (seconds) the modelled server sends
MaxRetryAfter == 2

\* the value undefined, where a response or an error may stand
Undefined == [kind |-> "undefined"]

\* a JavaScript number: NaN, or the integer val
NaN == [nan |-> TRUE, val |-> 0]
Num(v) == [nan |-> FALSE, val |-> v]

\* what headers.get returns: null (absent header) or the header's text
Null == [present |-> FALSE, text |-> <<>>]
Text(s) == [present |-> TRUE, text |-> s]

DigitChars == <<"0", "1", "2", "3", "4", "5", "6", "7", "8", "9">>

IsDigit(c) == \E i \in 1..10 : DigitChars[i] = c

DigitValue(c) == (CHOOSE i \in 1..10 : DigitChars[i] = c) - 1

\* decimal text of a natural number, as a sequence of characters
RECURSIVE ToDecimal(_)
ToDecimal(n) ==
  IF n < 10 THEN <<DigitChars[n + 1]>>
  ELSE Append(ToDecimal(n \div 10), DigitChars[(n % 10) + 1])

\* parseInt(s, 10) on a string without sign or leading blanks: the value of
\* the longest prefix of digits, NaN when that prefix is empty
RECURSIVE ParseDigits(_, _, _)
ParseDigits(s, i, acc) ==
  IF i > Len(s) \/ ~IsDigit(s[i]) THEN acc
  ELSE ParseDigits(s, i + 1, acc * 10 + DigitValue(s[i]))

parseInt(s) ==
  IF Len(s) = 0 \/ ~IsDigit(s[1]) THEN NaN ELSE Num(ParseDigits(s, 1, 0))

\* JavaScript truthiness of what headers.get returns (null or a string)
Truthy(h) == h.present /\ h.text # <<>>

\* x * 1000 with NaN propagating
TimesThousand(x) == IF x.nan THEN NaN ELSE Num(x.val * 1000)

\* what response.headers.get('Retry-After') can return: null when the header
\* is absent, else its text; well-formed texts are decimal seconds
WellFormedRetryAfter == {ToDecimal(n) : n \in 0..MaxRetryAfter} \cup {<<"1", "0">>}
MalformedRetryAfter == {<<>>, <<"x">>}
RetryAfterValues == {Null} \cup {Text(s) : s \in WellFormedRetryAfter \cup MalformedRetryAfter}

\* the statuses the modelled server answers with
Statuses == {200, 400, 404, 429, 500, 503}

Responses == [kind : {"response"}, status : Statuses, retryAfter : RetryAfterValues]

\* a rejected fetch: the error carries the attempt it happened in
NetworkError(k) == [kind |-> "error", at |-> k]

\* response.status === 429
IsRateLimited_retry5xx(response) == response.status = 429 \/ response.status >= 500

IsRateLimited(response) == response.status = 429

\* the delay computed on a 429, from the header or exponential backoff
RateLimitDelay_ignoreHeader(response, k) == Num((2 ^ k) * 1000)

RateLimitDelay(response, k) ==
  IF Truthy(response.retryAfter)
  THEN TimesThousand(parseInt(response.retryAfter.text))
  ELSE Num((2 ^ k) * 1000)

\* the delay computed in the catch block
CatchDelay_linear(k) == Num((k + 1) * 1000)

CatchDelay(k) == Num((2 ^ k) * 1000)

\* attempt < maxRetries, the guard of the retry after a 429
MayRetry429_offByOne(k) == k <= maxRetries

MayRetry429(k) == k < maxRetries

\* attempt < maxRetries, the guard of the retry in the catch block
MayRetryError(k) == k < maxRetries

\* the time setTimeout waits for a delay argument (NaN is coerced to 0)
TimeoutMs(d) == IF d.nan THEN 0 ELSE d.val

InitRetry ==
  /\ fwrPc = "idle"
  /\ attempt = 0
  /\ lastError = Undefined
  /\ outcomes = <<>>
  /\ callTimes = <<>>
  /\ delays = <<>>
  /\ now = 0
  /\ timerAt = 0
  /\ fwrResult = Undefined

\* the caller invokes fetchWithRetry: attempt = 0 and the first fetch is issued
CallFetchWithRetry ==
  /\ fwrPc = "idle"
  /\ fwrPc' = "fetching"
  /\ attempt' = 0
  /\ callTimes' = Append(callTimes, now)
  /\ UNCHANGED <<lastError, outcomes, delays, now, timerAt, fwrResult>>
  /\ UNCHANGED exceptRetry

\* await new Promise(resolve => setTimeout(resolve, delay))
Sleep(d) ==
  /\ fwrPc' = "sleeping"
  /\ delays' = Append(delays, d)
  /\ timerAt' = now + TimeoutMs(d)

\* the awaited fetch resolves with a 429 response
Response429 ==
  /\ fwrPc = "fetching"
  /\ \E response \in Responses :
       /\ IsRateLimited(response)
       /\ outcomes' = Append(outcomes, response)
       /\ IF MayRetry429(attempt)
          THEN /\ Sleep(RateLimitDelay(response, attempt))
               /\ UNCHANGED fwrResult
          ELSE /\ fwrPc' = "returned"
               /\ fwrResult' = response
               /\ UNCHANGED <<delays, timerAt>>
  /\ UNCHANGED <<attempt, lastError, callTimes, now>>
  /\ UNCHANGED exceptRetry

\* the awaited fetch resolves with any other response: return response
ResponseOther ==
  /\ fwrPc = "fetching"
  /\ \E response \in Responses :
       /\ ~IsRateLimited(response)
       /\ outcomes' = Append(outcomes, response)
       /\ fwrPc' = "returned"
       /\ fwrResult' = response
  /\ UNCHANGED <<attempt, lastError, callTimes, delays, now, timerAt>>
  /\ UNCHANGED exceptRetry

\* the for loop's attempt++ and test, then the next fetch or throw lastError
NextIteration(err) ==
  /\ attempt' = attempt + 1
  /\ IF attempt + 1 <= maxRetries
     THEN /\ fwrPc' = "fetching"
          /\ callTimes' = Append(callTimes, now')
          /\ UNCHANGED fwrResult
     ELSE /\ fwrPc' = "threw"
          /\ fwrResult' = err
          /\ UNCHANGED callTimes

\* the awaited fetch rejects (network-level failure): the catch block
FetchFails ==
  /\ fwrPc = "fetching"
  /\ outcomes' = Append(outcomes, NetworkError(attempt))
  /\ lastError' = NetworkError(attempt)
  /\ IF MayRetryError(attempt)
     THEN /\ Sleep(CatchDelay(attempt))
          /\ UNCHANGED <<attempt, callTimes, now, fwrResult>>
     ELSE /\ NextIteration(NetworkError(attempt))
          /\ UNCHANGED <<delays, now, timerAt>>
  /\ UNCHANGED exceptRetry

\* the pending timer fires and the loop goes on
TimerFires ==
  /\ fwrPc = "sleeping"
  /\ now' = timerAt
  /\ NextIteration(lastError)
  /\ UNCHANGED <<lastError, outcomes, delays, timerAt>>
  /\ UNCHANGED exceptRetry

NextRetry ==
  \/ CallFetchWithRetry
  \/ Response429
  \/ ResponseOther
  \/ FetchFails
  \/ TimerFires

(***************************************************************************)
(*                     Properties of fetchWithRetry                        *)
(***************************************************************************)

Is429(o) == o.kind = "response" /\ o.status = 429
IsOtherResponse(o) == o.kind = "response" /\ o.status # 429
IsFailure(o) == o.kind = "error"

All429 == \A i \in 1..Len(outcomes) : Is429(outcomes[i])
AllFailures == \A i \in 1..Len(outcomes) : IsFailure(outcomes[i])

\* C1: when every attempt receives a 429, fetchWithRetry makes exactly
\* maxRetries + 1 = 4 fetch calls and then returns the last 429 response; it
\* never throws and never makes a fifth call.
C1_All429ReturnsLast429 ==
  All429 =>
    /\ fwrPc # "threw"
    /\ Len(callTimes) <= maxRetries + 1
    /\ fwrPc = "returned" => /\ Len(callTimes) = maxRetries + 1
                             /\ Len(outcomes) = maxRetries + 1
                             /\ fwrResult = outcomes[maxRetries + 1]
    /\ Len(outcomes) = maxRetries + 1 => fwrPc = "returned"

C1_Witness ==
  /\ fwrPc = "returned"
  /\ All429
  /\ Len(callTimes) = 4
  /\ Is429(fwrResult)

\* the delay C2 expects after a 429 received in attempt k (from 0): the
\* header's seconds times 1000 when the header carries decimal seconds,
\* 2^k * 1000 when there is no header
HasSeconds(o) == o.retryAfter.present /\ o.retryAfter.text \in WellFormedRetryAfter
NoHeader(o) == ~o.retryAfter.present
SecondsOf(o) == CHOOSE n \in 0..(10 + MaxRetryAfter) : ToDecimal(n) = o.retryAfter.text

\* C2: after a 429 in attempt k that is not the last attempt, the next fetch
\* call is issued Retry-After * 1000 ms later when the response carries a
\* Retry-After header (decimal seconds), 2^k * 1000 ms later when it carries
\* none; and when that next call answers with a non-429 response, that
\* response is what fetchWithRetry returns.
C2_RetryDelayAfter429 ==
  \A i \in 1..Len(outcomes) :
    (Is429(outcomes[i]) /\ i - 1 < maxRetries) =>
      /\ Len(delays) >= i
      /\ HasSeconds(outcomes[i]) => delays[i] = Num(SecondsOf(outcomes[i]) * 1000)
      /\ NoHeader(outcomes[i]) => delays[i] = Num((2 ^ (i - 1)) * 1000)
      /\ fwrPc = "sleeping" /\ i = Len(outcomes) =>
            /\ Len(callTimes) = i
            /\ timerAt = callTimes[i] + delays[i].val
      /\ Len(callTimes) > i =>
            /\ ~delays[i].nan => callTimes[i + 1] - callTimes[i] = delays[i].val
            /\ (Len(outcomes) = i + 1 /\ IsOtherResponse(outcomes[i + 1])) =>
                  fwrPc = "returned" /\ fwrResult = outcomes[i + 1]

C2_Witness ==
  /\ fwrPc = "returned"
  /\ Len(outcomes) = 2
  /\ Is429(outcomes[1])
  /\ outcomes[1].retryAfter = Text(<<"2">>)
  /\ callTimes = <<0, 2000>>
  /\ fwrResult.status = 200

\* C3: a fetch that fails at network level in attempt k is retried
\* 2^k * 1000 ms later; when all maxRetries + 1 = 4 attempts fail at network
\* level, fetchWithRetry throws the failure of the last attempt, and there
\* is never a fifth fetch call.
C3_NetworkFailureRetriedThenThrown ==
  /\ Len(callTimes) <= maxRetries + 1
  /\ \A i \in 1..Len(outcomes) :
       (IsFailure(outcomes[i]) /\ i - 1 < maxRetries) =>
         /\ Len(delays) >= i
         /\ delays[i] = Num((2 ^ (i - 1)) * 1000)
         /\ Len(callTimes) > i => callTimes[i + 1] - callTimes[i] = (2 ^ (i - 1)) * 1000
  /\ (AllFailures /\ Len(outcomes) = maxRetries + 1) =>
       /\ fwrPc = "threw"
       /\ fwrResult = outcomes[maxRetries + 1]
       /\ fwrResult = NetworkError(maxRetries)
  /\ AllFailures => fwrPc # "returned"

C3_Witness ==
  /\ fwrPc = "threw"
  /\ AllFailures
  /\ Len(callTimes) = 4
  /\ callTimes = <<0, 1000, 3000, 7000>>
  /\ fwrResult = NetworkError(3)

\* C4: a response whose status is not 429 (every other 4xx and every 5xx
\* included) is returned at once: no delay is scheduled after it and no
\* further fetch call is issued.
C4_Non429ReturnedAtOnce ==
  \A i \in 1..Len(outcomes) :
    IsOtherResponse(outcomes[i]) =>
      /\ i = Len(outcomes)
      /\ fwrPc = "returned"
      /\ fwrResult = outcomes[i]
      /\ Len(callTimes) = i
      /\ Len(delays) = i - 1

C4_Witness ==
  /\ fwrPc = "returned"
  /\ Len(outcomes) = 2
  /\ outcomes[2].kind = "response"
  /\ outcomes[2].status = 503
  /\ Len(delays) = 1
  /\ Len(callTimes) = 2

(***************************************************************************)
(*        Settings Store: event-page.js and content.js over one key        *)
(***************************************************************************)

\* a JavaScript object: a function from its own property names
EmptyObj == [k \in {} |-> 0]
Has(obj, k) == k \in DOMAIN obj
Put(obj, k, v) == [x \in DOMAIN obj \cup {k} |-> IF x = k THEN v ELSE obj[x]]
Delete(obj, k) == [x \in DOMAIN obj \ {k} |-> obj[x]]
\* { ...a, ...b }
Spread(a, b) == [x \in DOMAIN a \cup DOMAIN b |-> IF x \in DOMAIN b THEN b[x] ELSE a[x]]

\* competition identifiers (RE-VIQRC-..) of the event pages that are visited
CompetitionIds == {"X", "Y"}

\* the rosters extractTeams finds: team numbers, already upper-cased
Rosters == {<<>>, <<"1A">>, <<"1A", "2B">>}

\* what the user types into the team input of the skills page
TeamInputs == {<<"1A">>, <<"1a", "2B">>}

\* what new Date().toISOString() gives at the moment of a capture
CaptureTimes == {"2026-01-10T10:00:00.000Z"}

\* what the user enters in the settings panel of the event page (dates are
\* day numbers)
TokenInputs == {"", "T1"}
MatchFilterInputs == {[type |-> "last_n_events", date |-> 3, count |-> 3]}

\* String.prototype.toUpperCase on the team numbers in use
toUpperCase(t) ==
  CASE t = "1a" -> "1A"
    [] t = "2b" -> "2B"
    [] OTHER -> t

\* the content of the storage key: absent (getItem gives null), a string that
\* is not JSON, the JSON text null, or the JSON text of an object
Absent == [kind |-> "absent", doc |-> EmptyObj]
Malformed == [kind |-> "malformed", doc |-> EmptyObj]
JsonNull == [kind |-> "null", doc |-> EmptyObj]

\* JSON.stringify of a settings object (its values are strings, numbers,
\* booleans, arrays and objects, which JSON carries unchanged)
JSONstringify(obj) == [kind |-> "object", doc |-> obj]

\* JSON.parse: throws on text that is not JSON
JSONparse(text) ==
  CASE text.kind = "object" -> [threw |-> FALSE, isNull |-> FALSE, value |-> text.doc]
    [] text.kind = "null" -> [threw |-> FALSE, isNull |-> TRUE, value |-> EmptyObj]
    [] OTHER -> [threw |-> TRUE, isNull |-> FALSE, value |-> EmptyObj]

\* the default document of the event page: { competitionTeams: {} }
DefaultDocument == [competitionTeams |-> EmptyObj]

Returned(obj) == [threw |-> FALSE, isNull |-> FALSE, value |-> obj]

\* loadSettings of event-page.js
loadSettings_noCatch(text) ==
  IF text.kind = "absent" THEN Returned(DefaultDocument) ELSE JSONparse(text)

loadSettings(text) ==
  IF text.kind = "absent" THEN Returned(DefaultDocument)
  ELSE IF JSONparse(text).threw THEN Returned(DefaultDocument)
  ELSE JSONparse(text)

\* the initial value of the module variable settings of content.js
InitialSettings ==
  [highlightedTeams |-> <<>>, competitionTeams |-> EmptyObj, useCustomTable |-> TRUE]

\* loadSettings of content.js: the new value of settings
contentLoadSettings(current, text) ==
  IF text.kind = "absent" THEN current
  ELSE IF JSONparse(text).threw THEN current
  ELSE IF JSONparse(text).isNull THEN current
  ELSE Spread(current, JSONparse(text).value)

\* !!(settings.apiToken && settings.apiToken.trim())
HasToken(obj) == Has(obj, "apiToken") /\ obj.apiToken # ""

\* settings.apiToken is truthy
HasTokenField_always(obj) == TRUE

HasTokenField(obj) == Has(obj, "apiToken") /\ obj.apiToken # ""

\* getEventName() of the page of a competition
EventName(id) == IF id = "X" THEN "Event X" ELSE "Event Y"

\* the object captureTeams stores under the competition identifier
Capture(teams, id, time) ==
  [teams |-> teams, name |-> EventName(id), capacity |-> "", fetchedAt |-> time]

\* settings.competitionTeams = settings.competitionTeams || {};
\* settings.competitionTeams[competitionId] = {...}
WithCapture_union(obj, id, teams, time) ==
  LET comps == IF Has(obj, "competitionTeams") THEN obj.competitionTeams ELSE EmptyObj
      old == IF Has(comps, id) THEN comps[id].teams ELSE <<>>
      merged == old \o SelectSeq(teams, LAMBDA t : \A i \in 1..Len(old) : old[i] # t)
  IN Put(obj, "competitionTeams", Put(comps, id, Capture(merged, id, time)))

WithCapture(obj, id, teams, time) ==
  LET comps == IF Has(obj, "competitionTeams") THEN obj.competitionTeams ELSE EmptyObj
  IN Put(obj, "competitionTeams", Put(comps, id, Capture(teams, id, time)))

\* the save-settings click handler's changes to the loaded object
WithPanelValues(obj, token, filter) ==
  LET withToken == IF token # "" THEN Put(obj, "apiToken", token) ELSE obj
  IN Put(Put(Put(withToken, "matchFilterType", filter.type),
                 "matchFilterDate", filter.date),
                 "matchFilterCount", filter.count)

\* teams.forEach(team => { if (!includes(team)) push(team) })
RECURSIVE PushAll(_, _)
PushAll(list, teams) ==
  IF teams = <<>> THEN list
  ELSE LET t == Head(teams)
           next == IF \E i \in 1..Len(list) : list[i] = t THEN list ELSE Append(list, t)
       IN PushAll(next, Tail(teams))

\* input.value.split(',').map(t => t.trim().toUpperCase()).filter(t => t)
ParseTeamInput_asTyped(input) == input

ParseTeamInput(input) == [i \in 1..Len(input) |-> toUpperCase(input[i])]

Op(page, name, threw) == [page |-> page, name |-> name, threw |-> threw]

\* the team numbers of the ranking data the skills page shows, upper-cased
\* by parseApiData (3C is in no capture and is never highlighted)
ShownTeams == {"1A", "2B", "3C"}

\* getCompetitionTeams(): the upper-cased teams of every stored capture
CompetitionTeamSet(obj) ==
  LET comps == IF Has(obj, "competitionTeams") THEN obj.competitionTeams ELSE EmptyObj
  IN UNION {{toUpperCase(comps[id].teams[i]) : i \in 1..Len(comps[id].teams)} : id \in DOMAIN comps}

\* new Set((settings.highlightedTeams || []).map(t => t.toUpperCase()))
HighlightedTeamSet(obj) ==
  IF Has(obj, "highlightedTeams")
  THEN {toUpperCase(obj.highlightedTeams[i]) : i \in 1..Len(obj.highlightedTeams)}
  ELSE {}

\* rowClass of buildCustomTable (content.js 337-343)
CustomRowClass(team, obj) ==
  IF team \in CompetitionTeamSet(obj) /\ team \in HighlightedTeamSet(obj) THEN "vex-both-highlight"
  ELSE IF team \in CompetitionTeamSet(obj) THEN "vex-competition-row"
  ELSE IF team \in HighlightedTeamSet(obj) THEN "vex-highlighted-row"
  ELSE ""

\* the class enhanceOriginalTable adds to the row of a team number cell
OriginalRowClass(text, obj) ==
  IF toUpperCase(text) \in CompetitionTeamSet(obj) /\ toUpperCase(text) \in HighlightedTeamSet(obj)
  THEN "vex-both-highlight"
  ELSE IF toUpperCase(text) \in CompetitionTeamSet(obj) THEN "vex-competition-row"
  ELSE IF toUpperCase(text) \in HighlightedTeamSet(obj) THEN "vex-highlighted-row"
  ELSE ""

\* rowClass of buildEnhancedTable (event-page.js 890-896)
EnhancedRowClass(team, obj) ==
  IF toUpperCase(team) \in HighlightedTeamSet(obj) THEN "vex-highlighted-row"
  ELSE IF toUpperCase(team) \in CompetitionTeamSet(obj) THEN "vex-competition-row"
  ELSE ""

\* the table refreshFilteredData leaves on the skills page once the ranking
\* data is loaded: the custom table, or the original one with highlights
NoRows == [table |-> "none", classes |-> EmptyObj]
SkillsRows(obj) ==
  [table |-> IF obj.useCustomTable THEN "custom" ELSE "original",
   classes |-> [t \in ShownTeams |->
                  IF obj.useCustomTable THEN CustomRowClass(t, obj)
                  ELSE OriginalRowClass(t, obj)]]

\* the rows of the enhanced table of the event page, one per roster entry
EventRows(roster, obj) == [k \in 1..Len(roster) |-> EnhancedRowClass(roster[k], obj)]

\* the state in which neither page has been opened
QuietStore ==
  /\ storage = Absent
  /\ evOpen = FALSE
  /\ competitionId = "X"
  /\ eventTeams = <<>>
  /\ pageRoster = <<>>
  /\ clearVisible = FALSE
  /\ skOpen = FALSE
  /\ settings = InitialSettings
  /\ lastOp = Op("none", "none", FALSE)
  /\ lastInput = <<>>
  /\ skRows = NoRows
  /\ evRows = <<>>

\* before either page is opened the key may hold anything an earlier session
\* or another program left there
InitStore ==
  /\ storage \in {Absent, Malformed, JsonNull, JSONstringify(EmptyObj),
                  JSONstringify(DefaultDocument)}
  /\ evOpen = FALSE
  /\ competitionId = "X"
  /\ eventTeams = <<>>
  /\ pageRoster = <<>>
  /\ clearVisible = FALSE
  /\ skOpen = FALSE
  /\ settings = InitialSettings
  /\ lastOp = Op("none", "none", FALSE)
  /\ lastInput = <<>>
  /\ skRows = NoRows
  /\ evRows = <<>>

\* ---- event page ----

\* init of event-page.js on the page of competition id, whose rendered roster
\* is roster when extractTeams runs; a stored null makes init throw on
\* initSettings.hiddenAwards before the capture button is created
EventPageInit(id, roster) ==
  /\ competitionId' = id
  /\ pageRoster' = roster
  /\ IF loadSettings(storage).threw \/ loadSettings(storage).isNull
     THEN /\ evOpen' = FALSE
          /\ clearVisible' = FALSE
          /\ UNCHANGED eventTeams
          /\ evRows' = <<>>
          /\ lastOp' = Op("event", "init", TRUE)
     ELSE /\ evOpen' = TRUE
          /\ eventTeams' = roster
          /\ clearVisible' = HasToken(loadSettings(storage).value)
          /\ evRows' = EventRows(roster, loadSettings(storage).value)
          /\ lastOp' = Op("event", "init", FALSE)
  /\ lastInput' = <<>>
  /\ UNCHANGED <<storage, skOpen, settings, skRows>>
  /\ UNCHANGED exceptStore

\* the page renders its teams table only now, after init has called
\* extractTeams
RosterRenders(roster) ==
  /\ lastOp.page = "event"
  /\ pageRoster = <<>>
  /\ roster # <<>>
  /\ pageRoster' = roster
  /\ lastOp' = Op("event", "render", FALSE)
  /\ lastInput' = <<>>
  /\ UNCHANGED <<storage, evOpen, competitionId, eventTeams, clearVisible, skOpen, settings,
                 skRows, evRows>>
  /\ UNCHANGED exceptStore

\* click on the capture button at time time: captureTeams()
CaptureTeams(time) ==
  /\ evOpen
  /\ IF eventTeams = <<>>
     THEN /\ lastOp' = Op("event", "captureNone", FALSE)
          /\ UNCHANGED storage
     ELSE IF loadSettings(storage).threw \/ loadSettings(storage).isNull
     THEN /\ lastOp' = Op("event", "capture", TRUE)
          /\ UNCHANGED storage
     ELSE /\ storage' = JSONstringify(WithCapture(loadSettings(storage).value,
                                                  competitionId, eventTeams, time))
          /\ lastOp' = Op("event", "capture", FALSE)
  /\ lastInput' = <<>>
  /\ UNCHANGED <<evOpen, competitionId, eventTeams, pageRoster, clearVisible, skOpen, settings, skRows, evRows>>
  /\ UNCHANGED exceptStore

\* click on Save Settings in the panel of the event page
SaveSettingsClick(token, filter) ==
  /\ evOpen
  /\ IF loadSettings(storage).threw \/ loadSettings(storage).isNull
     THEN /\ lastOp' = Op("event", "saveSettings", TRUE)
          /\ UNCHANGED <<storage, clearVisible>>
     ELSE /\ storage' = JSONstringify(WithPanelValues(loadSettings(storage).value, token, filter))
          /\ clearVisible' = HasToken(WithPanelValues(loadSettings(storage).value, token, filter))
          /\ lastOp' = Op("event", "saveSettings", FALSE)
  /\ lastInput' = <<>>
  /\ UNCHANGED <<evOpen, competitionId, eventTeams, pageRoster, skOpen, settings, skRows, evRows>>
  /\ UNCHANGED exceptStore

\* click on the Clear button of the token
ClearToken ==
  /\ evOpen
  /\ clearVisible
  /\ IF loadSettings(storage).threw \/ loadSettings(storage).isNull
     THEN /\ lastOp' = Op("event", "clearToken", TRUE)
          /\ UNCHANGED <<storage, clearVisible>>
     ELSE /\ storage' = JSONstringify(Put(loadSettings(storage).value, "apiToken", ""))
          /\ clearVisible' = FALSE
          /\ lastOp' = Op("event", "clearToken", FALSE)
  /\ lastInput' = <<>>
  /\ UNCHANGED <<evOpen, competitionId, eventTeams, pageRoster, skOpen, settings, skRows, evRows>>
  /\ UNCHANGED exceptStore

\* ---- skills page ----

\* init of content.js: settings starts from its initial value, loadSettings()
SkillsPageInit ==
  /\ skOpen' = TRUE
  /\ settings' = contentLoadSettings(InitialSettings, storage)
  /\ skRows' = SkillsRows(settings')
  /\ lastOp' = Op("skills", "init", FALSE)
  /\ lastInput' = <<>>
  /\ UNCHANGED <<storage, evOpen, competitionId, eventTeams, pageRoster, clearVisible, evRows>>
  /\ UNCHANGED exceptStore

\* click on Refresh Data: loadSettings() into the current settings
RefreshData ==
  /\ skOpen
  /\ settings' = contentLoadSettings(settings, storage)
  /\ skRows' = SkillsRows(settings')
  /\ lastOp' = Op("skills", "refresh", FALSE)
  /\ lastInput' = <<>>
  /\ UNCHANGED <<storage, evOpen, competitionId, eventTeams, pageRoster, clearVisible, skOpen, evRows>>
  /\ UNCHANGED exceptStore

\* saveSettings of content.js: the module variable is written as it is
SaveFromMemory(obj) ==
  /\ settings' = obj
  /\ storage' = JSONstringify(obj)

\* refreshFilteredData() or toggleTableView() at the end of a handler
RenderSkillsTable == skRows' = SkillsRows(settings')

\* click on Add with input in the team field
AddHighlight(input) ==
  /\ skOpen
  /\ SaveFromMemory(Put(settings, "highlightedTeams",
                        PushAll(settings.highlightedTeams, ParseTeamInput(input))))
  /\ RenderSkillsTable
  /\ lastInput' = input
  /\ lastOp' = Op("skills", "addHighlight", FALSE)
  /\ UNCHANGED <<evOpen, competitionId, eventTeams, pageRoster, clearVisible, skOpen, evRows>>
  /\ UNCHANGED exceptStore

\* click on the x of a team tag
RemoveHighlight(team) ==
  /\ skOpen
  /\ \E i \in 1..Len(settings.highlightedTeams) : settings.highlightedTeams[i] = team
  /\ SaveFromMemory(Put(settings, "highlightedTeams",
                        SelectSeq(settings.highlightedTeams, LAMBDA t : t # team)))
  /\ RenderSkillsTable
  /\ lastOp' = Op("skills", "removeHighlight", FALSE)
  /\ lastInput' = <<>>
  /\ UNCHANGED <<evOpen, competitionId, eventTeams, pageRoster, clearVisible, skOpen, evRows>>
  /\ UNCHANGED exceptStore

\* click on the x of a competition of the list
RemoveCompetition(id) ==
  /\ skOpen
  /\ Has(settings.competitionTeams, id)
  /\ SaveFromMemory(Put(settings, "competitionTeams", Delete(settings.competitionTeams, id)))
  /\ RenderSkillsTable
  /\ lastOp' = Op("skills", "removeCompetition", FALSE)
  /\ lastInput' = <<>>
  /\ UNCHANGED <<evOpen, competitionId, eventTeams, pageRoster, clearVisible, skOpen, evRows>>
  /\ UNCHANGED exceptStore

\* change of the enhanced-table checkbox
ToggleCustomTable(checked) ==
  /\ skOpen
  /\ settings.useCustomTable # checked
  /\ SaveFromMemory(Put(settings, "useCustomTable", checked))
  /\ RenderSkillsTable
  /\ lastOp' = Op("skills", "toggleTable", FALSE)
  /\ lastInput' = <<>>
  /\ UNCHANGED <<evOpen, competitionId, eventTeams, pageRoster, clearVisible, skOpen, evRows>>
  /\ UNCHANGED exceptStore

NextStore ==
  \/ \E id \in CompetitionIds, roster \in Rosters : EventPageInit(id, roster)
  \/ \E time \in CaptureTimes : CaptureTeams(time)
  \/ \E token \in TokenInputs, filter \in MatchFilterInputs : SaveSettingsClick(token, filter)
  \/ ClearToken
  \/ SkillsPageInit
  \/ RefreshData
  \/ \E input \in TeamInputs : AddHighlight(input)
  \/ \E team \in {"1A", "2B"} : RemoveHighlight(team)
  \/ \E id \in CompetitionIds : RemoveCompetition(id)
  \/ \E checked \in BOOLEAN : ToggleCustomTable(checked)

\* the event page alone, with a teams table that may be rendered late
NextCapture ==
  \/ \E id \in CompetitionIds, roster \in Rosters : EventPageInit(id, roster)
  \/ \E roster \in Rosters : RosterRenders(roster)
  \/ \E time \in CaptureTimes : CaptureTeams(time)

(***************************************************************************)
(*                    Properties of the Settings Store                     *)
(***************************************************************************)

\* the competitionTeams map of the stored document ({} when there is none)
StoredCompetitions(text) ==
  IF Has(loadSettings(text).value, "competitionTeams")
  THEN loadSettings(text).value.competitionTeams
  ELSE EmptyObj

\* C5: after a successful captureTeams for competition X the stored capture
\* of X holds exactly the team list of this capture (replace, not union),
\* and the capture stored under every other identifier is as it was.
C5_CaptureReplacesRoster ==
  [][(lastOp'.name = "capture" /\ ~lastOp'.threw) =>
       /\ storage'.kind = "object"
       /\ Has(storage'.doc, "competitionTeams")
       /\ Has(storage'.doc.competitionTeams, competitionId)
       /\ storage'.doc.competitionTeams[competitionId].teams = eventTeams
       /\ \A id \in CompetitionIds \ {competitionId} :
            /\ Has(storage'.doc.competitionTeams, id) <=> Has(StoredCompetitions(storage), id)
            /\ Has(StoredCompetitions(storage), id) =>
                 storage'.doc.competitionTeams[id] = StoredCompetitions(storage)[id]
     ]_vars

\* X was captured with 1A and 2B (the skills page still holds that capture),
\* Y was captured, and X has now been captured again with 1A only
C5_Witness ==
  /\ lastOp = Op("event", "capture", FALSE)
  /\ competitionId = "X"
  /\ eventTeams = <<"1A">>
  /\ skOpen
  /\ Has(settings.competitionTeams, "X")
  /\ settings.competitionTeams["X"].teams = <<"1A", "2B">>
  /\ storage.kind = "object"
  /\ Has(storage.doc.competitionTeams, "Y")
  /\ storage.doc.competitionTeams["X"].teams = <<"1A">>

\* C6: loadSettings never throws whatever the key holds, and when nothing is
\* stored or the stored string is not JSON the settings in use are a valid
\* default document with an empty competitionTeams map (on the event page
\* { competitionTeams: {} }, on the skills page the initial settings).
C6_LoadSettingsNeverThrows ==
  /\ ~loadSettings(storage).threw
  /\ storage.kind \in {"absent", "malformed"} =>
       /\ ~loadSettings(storage).isNull
       /\ DOMAIN loadSettings(storage).value = {"competitionTeams"}
       /\ loadSettings(storage).value.competitionTeams = EmptyObj
       /\ ~lastOp.threw
       /\ lastOp.name = "init" => (IF lastOp.page = "event" THEN evOpen ELSE skOpen)
       /\ skOpen => /\ settings = contentLoadSettings(InitialSettings, storage)
                    /\ settings.competitionTeams = EmptyObj
                    /\ settings.highlightedTeams = <<>>

C6_Witness ==
  /\ storage = Malformed
  /\ lastOp = Op("event", "init", FALSE)
  /\ evOpen
  /\ skOpen
  /\ settings.competitionTeams = EmptyObj

\* the fields of the settings document a handler changes
Touched(name) ==
  CASE name = "capture" -> {"competitionTeams"}
    [] name = "saveSettings" -> {"apiToken", "matchFilterType", "matchFilterDate", "matchFilterCount"}
    [] name = "clearToken" -> {"apiToken"}
    [] name = "addHighlight" -> {"highlightedTeams"}
    [] name = "removeHighlight" -> {"highlightedTeams"}
    [] name = "removeCompetition" -> {"competitionTeams"}
    [] name = "toggleTable" -> {"useCustomTable"}
    [] OTHER -> {}

WritingOps ==
  {"capture", "saveSettings", "clearToken",
   "addHighlight", "removeHighlight", "removeCompetition", "toggleTable"}

\* C7: every action that writes the Settings Store loads the currently
\* stored document, applies its change to that document and saves it: the
\* document written has every field of the stored document that the action
\* does not change, with the stored value.
C7_LoadMutateSave ==
  [][(lastOp'.name \in WritingOps /\ ~lastOp'.threw) =>
       /\ storage'.kind = "object"
       /\ \A k \in DOMAIN loadSettings(storage).value \ Touched(lastOp'.name) :
            /\ Has(storage'.doc, k)
            /\ storage'.doc[k] = loadSettings(storage).value[k]
     ]_vars

\* whether a team number is in a capture of the document, and whether it is
\* in the document's list of highlighted teams
IsCaptured(t, obj) ==
  /\ Has(obj, "competitionTeams")
  /\ \E id \in DOMAIN obj.competitionTeams :
       \E i \in 1..Len(obj.competitionTeams[id].teams) :
         toUpperCase(obj.competitionTeams[id].teams[i]) = toUpperCase(t)
HighlightList(obj) == IF Has(obj, "highlightedTeams") THEN obj.highlightedTeams ELSE <<>>
IsManual(t, obj) ==
  \E i \in 1..Len(HighlightList(obj)) : toUpperCase(HighlightList(obj)[i]) = toUpperCase(t)

\* the class of each of the four stylings
Styling(captured, manual) ==
  IF captured /\ manual THEN "vex-both-highlight"
  ELSE IF captured THEN "vex-competition-row"
  ELSE IF manual THEN "vex-highlighted-row"
  ELSE ""

\* C17: whenever a table is rendered (the custom or the original table of
\* the skills page by a handler of that page, the enhanced table of the
\* event page by its init), every row has the styling of its team's two
\* memberships: both, competition only, manual only, or none.
C17_RowClassFromMemberships ==
  [][/\ lastOp'.page = "skills" =>
          \A t \in ShownTeams :
            skRows'.classes[t] = Styling(IsCaptured(t, settings'), IsManual(t, settings'))
     /\ lastOp' = Op("event", "init", FALSE) =>
          \A k \in 1..Len(eventTeams') :
            evRows'[k] = Styling(IsCaptured(eventTeams'[k], loadSettings(storage').value),
                                 IsManual(eventTeams'[k], loadSettings(storage').value))
    ]_vars

NoCaseDuplicates(list) ==
  \A i \in 1..Len(list) : \A j \in 1..Len(list) :
    toUpperCase(list[i]) = toUpperCase(list[j]) => i = j

IsPrefix(a, b) == Len(a) <= Len(b) /\ \A i \in 1..Len(a) : b[i] = a[i]

IsHighlightClass(c) == c \in {"vex-highlighted-row", "vex-both-highlight"}

C30_CaptureTakesRenderedRoster ==
  [][(lastOp'.page = "event" /\ lastOp'.name \in {"capture", "captureNone"}
      /\ pageRoster # <<>>
      /\ ~(loadSettings(storage).threw \/ loadSettings(storage).isNull)) =>
       /\ lastOp' = Op("event", "capture", FALSE)
       /\ Has(StoredCompetitions(storage'), competitionId)
       /\ StoredCompetitions(storage')[competitionId].teams = pageRoster
     ]_vars

\* C28: adding a highlight, removing a highlight and toggling the table on
\* the skills page leave every stored capture and the stored API token as
\* the event page wrote them.
C28_SkillsPageKeepsCapturesAndToken ==
  [][(lastOp'.page = "skills" /\ ~lastOp'.threw
      /\ lastOp'.name \in {"addHighlight", "removeHighlight", "toggleTable"}) =>
       /\ \A id \in DOMAIN StoredCompetitions(storage) :
            /\ Has(StoredCompetitions(storage'), id)
            /\ StoredCompetitions(storage')[id] = StoredCompetitions(storage)[id]
       /\ HasTokenField(loadSettings(storage).value) =>
            /\ HasTokenField(loadSettings(storage').value)
            /\ loadSettings(storage').value.apiToken = loadSettings(storage).value.apiToken
     ]_vars

(***************************************************************************)
(*                   buildEnhancedTable (event-page.js)                    *)
(***************************************************************************)

\* longest roster of the event page
MaxRoster == 2

\* team numbers in localeCompare order; 9Z is on no roster
AllTeams == <<"1A", "2B", "3C", "9Z">>
RosterTeams == {"1A", "2B", "3C"}

RECURSIVE SeqsUpTo(_, _)
SeqsUpTo(S, n) ==
  IF n = 0 THEN {<<>>}
  ELSE SeqsUpTo(S, n - 1) \cup {Append(q, x) : q \in {r \in SeqsUpTo(S, n - 1) : Len(r) = n - 1}, x \in S}

\* the rosters extractTeams can give (a table may list a team twice)
TableRosters == SeqsUpTo(RosterTeams, MaxRoster)

\* a Map or null
NoMap == [isNull |-> TRUE, map |-> EmptyObj]
MapOf(f) == [isNull |-> FALSE, map |-> f]

\* map?.get(key): undefined when the map is null or has no such key
MapHas(m, key) == ~m.isNull /\ key \in DOMAIN m.map

\* the records of the ranking map (score, programming, driver)
SkillsRecords ==
  { [score |-> 30, programming |-> 10, driver |-> 20],
    [score |-> 40, programming |-> 10, driver |-> 30],
    [score |-> 50, programming |-> 50, driver |-> 0] }

\* the ranking maps: any set of teams, each with one of the records
SkillsMaps ==
  {NoMap} \cup
  UNION { {MapOf(f) : f \in [keys -> SkillsRecords]} : keys \in SUBSET {"1A", "2B", "9Z"} }

\* the match aggregates (average, max, matchCount)
MatchMaps ==
  { NoMap,
    MapOf(EmptyObj),
    MapOf([t \in {"1A"} |-> [average |-> 12, max |-> 20, matchCount |-> 2]]),
    MapOf([t \in {"1A", "2B"} |-> [average |-> 0, max |-> 0, matchCount |-> 1]]) }

\* null, where a number may stand (scores are never negative)
NullNumber == -1

\* undefined, where a number may stand: an alliance score that is missing,
\* an element read past the end of an array
UndefinedNumber == -2

\* x || 0 and x || null on a number or null
OrZero(x) == IF x = NullNumber THEN 0 ELSE x
OrNull(x) == IF x = 0 THEN NullNumber ELSE x

SortColumns == {"team", "score", "programming", "driver", "recentMatchAvg", "recentMatchMax"}

\* one element of mergedData for a roster entry
MergeRow(team) ==
  [ team |-> team,
    score |-> IF MapHas(skillsData, team) THEN skillsData.map[team].score ELSE 0,
    programming |-> IF MapHas(skillsData, team) THEN skillsData.map[team].programming ELSE 0,
    driver |-> IF MapHas(skillsData, team) THEN skillsData.map[team].driver ELSE 0,
    recentMatchAvg |-> IF MapHas(matchAverages, team)
                       THEN OrNull(matchAverages.map[team].average) ELSE NullNumber,
    recentMatchMax |-> IF MapHas(matchAverages, team)
                       THEN OrNull(matchAverages.map[team].max) ELSE NullNumber,
    recentMatchCount |-> IF MapHas(matchAverages, team)
                         THEN matchAverages.map[team].matchCount ELSE 0,
    rank |-> 0 ]

\* eventTeams.map(team => ({...}))
Merge_rankedOnly(roster) ==
  LET kept == SelectSeq(roster, LAMBDA t : MapHas(skillsData, t))
  IN [i \in 1..Len(kept) |-> MergeRow(kept[i])]

Merge(roster) == [i \in 1..Len(roster) |-> MergeRow(roster[i])]

\* a.localeCompare(b) on team numbers: negative, zero or positive
TeamIndex(t) == CHOOSE i \in 1..Len(AllTeams) : AllTeams[i] = t
localeCompare(a, b) == TeamIndex(a) - TeamIndex(b)

\* the comparator handed to mergedData.sort (lines 801-808)
Compare(a, b, col, dir) ==
  IF col = "team"
  THEN IF dir = "desc" THEN localeCompare(b.team, a.team) ELSE localeCompare(a.team, b.team)
  ELSE IF dir = "desc" THEN OrZero(b[col]) - OrZero(a[col]) ELSE OrZero(a[col]) - OrZero(b[col])

\* Array.prototype.sort: a stable sort by the comparator
RECURSIVE InsertSorted(_, _, _, _)
InsertSorted(sorted, x, col, dir) ==
  IF sorted = <<>> THEN <<x>>
  ELSE LET last == sorted[Len(sorted)]
       IN IF Compare(last, x, col, dir) > 0
          THEN Append(InsertSorted(SubSeq(sorted, 1, Len(sorted) - 1), x, col, dir), last)
          ELSE Append(sorted, x)

RECURSIVE StableSort(_, _, _)
StableSort(rows, col, dir) ==
  IF rows = <<>> THEN <<>>
  ELSE InsertSorted(StableSort(SubSeq(rows, 1, Len(rows) - 1), col, dir),
                    rows[Len(rows)], col, dir)

\* mergedData.forEach((item, idx) => item.rank = idx + 1)
AssignRanks_fromZero(rows) == [i \in 1..Len(rows) |-> [rows[i] EXCEPT !.rank = i - 1]]

AssignRanks(rows) == [i \in 1..Len(rows) |-> [rows[i] EXCEPT !.rank = i]]

\* scores.filter(s => s > 0)
PositiveOnly(scores) == SelectSeq(scores, LAMBDA x : x > 0)

\* [...scores].sort((a, b) => a - b)
PlaceAscending(scores, i) ==
  1 + Cardinality({j \in 1..Len(scores) :
                     scores[j] < scores[i] \/ (scores[j] = scores[i] /\ j < i)})

sortAscending(scores) ==
  [place \in 1..Len(scores) |->
     scores[CHOOSE i \in 1..Len(scores) : PlaceAscending(scores, i) = place]]

\* scores.reduce((a, b) => a + b, 0)
RECURSIVE reduceSum(_, _)
reduceSum(scores, i) == IF i > Len(scores) THEN 0 ELSE scores[i] + reduceSum(scores, i + 1)

\* Math.max(...scores): -Infinity for no score
MinusInfinity == -3

MathMax(scores) ==
  IF scores = <<>> THEN MinusInfinity
  ELSE CHOOSE x \in {scores[i] : i \in 1..Len(scores)} :
         \A i \in 1..Len(scores) : scores[i] <= x

\* Math.floor(sortedScores.length / 2), counted from 0
MedianIndex_lower(n) == (n - 1) \div 2

MedianIndex(n) == n \div 2

\* sortedScores[Math.floor(sortedScores.length / 2)]: undefined for no score
MedianOf(scores) ==
  IF scores = <<>> THEN UndefinedNumber
  ELSE sortAscending(scores)[MedianIndex(Len(scores)) + 1]

\* the average (the quotient total / count, which toFixed(1) then prints),
\* the maximum and the median of the positive scores
SummaryOf(allRowScores) ==
  LET scores == PositiveOnly(allRowScores)
  IN [shown |-> TRUE,
      avg |-> [total |-> reduceSum(scores, 1), count |-> Len(scores)],
      max |-> MathMax(scores),
      median |-> MedianOf(scores)]

NoSummary ==
  [shown |-> FALSE, avg |-> [total |-> 0, count |-> 0], max |-> 0, median |-> 0]

\* the statistics line of buildEnhancedTable: none when teamsWithScores is 0
EventSummary(rows) ==
  IF \A i \in 1..Len(rows) : ~(rows[i].score > 0) THEN NoSummary
  ELSE SummaryOf([i \in 1..Len(rows) |-> rows[i].score])

\* the rows buildEnhancedTable renders
BuiltRows(roster, col, dir) == AssignRanks(StableSort(Merge(roster), col, dir))

\* no table yet
NoTable == [built |-> FALSE, rows |-> <<>>, stats |-> NoSummary]

QuietTable ==
  /\ skillsData = NoMap
  /\ matchAverages = NoMap
  /\ sortColumn = "score"
  /\ sortDirection = "desc"
  /\ sectionFound = FALSE
  /\ mergedData = NoTable

\* the state when init calls buildEnhancedTable: the roster was extracted and
\* the fetchers have left the maps as they are
InitTable ==
  /\ skillsData \in SkillsMaps
  /\ matchAverages \in MatchMaps
  /\ sortColumn = "score"
  /\ sortDirection = "desc"
  /\ sectionFound \in BOOLEAN
  /\ mergedData = NoTable

\* buildEnhancedTable(): returns early without roster or without section
Rebuild(col, dir) ==
  IF eventTeams = <<>> \/ ~sectionFound
  THEN UNCHANGED mergedData
  ELSE mergedData' = [built |-> TRUE, rows |-> BuiltRows(eventTeams, col, dir),
                      stats |-> EventSummary(BuiltRows(eventTeams, col, dir))]

BuildEnhancedTable ==
  /\ ~mergedData.built
  /\ Rebuild(sortColumn, sortDirection)
  /\ UNCHANGED <<skillsData, matchAverages, sortColumn, sortDirection, sectionFound>>
  /\ UNCHANGED exceptTable

\* click on a sortable column header of the built table
SortClick(col) ==
  /\ mergedData.built
  /\ IF sortColumn = col
     THEN /\ sortDirection' = (IF sortDirection = "desc" THEN "asc" ELSE "desc")
          /\ UNCHANGED sortColumn
     ELSE /\ sortColumn' = col
          /\ sortDirection' = (IF col = "team" THEN "asc" ELSE "desc")
  /\ Rebuild(sortColumn', sortDirection')
  /\ UNCHANGED <<skillsData, matchAverages, sectionFound>>
  /\ UNCHANGED exceptTable

NextTable ==
  \/ BuildEnhancedTable
  \/ \E col \in SortColumns : SortClick(col)

(***************************************************************************)
(*                    Properties of buildEnhancedTable                     *)
(***************************************************************************)

\* the number of entries of a sequence that are for team t
CountOf(seq, t) == Cardinality({i \in 1..Len(seq) : seq[i] = t})
RowTeams == [i \in 1..Len(mergedData.rows) |-> mergedData.rows[i].team]

\* C8: the merged view has exactly N rows for a roster of N teams, one per
\* roster entry; a roster team without ranking data has score, programming
\* and driver 0; a team that is only in the ranking map has no row.
C8_OneRowPerRosterEntry ==
  mergedData.built =>
    /\ Len(mergedData.rows) = Len(eventTeams)
    /\ \A t \in {AllTeams[i] : i \in 1..Len(AllTeams)} :
         CountOf(RowTeams, t) = CountOf(eventTeams, t)
    /\ \A i \in 1..Len(mergedData.rows) :
         LET row == mergedData.rows[i]
         IN /\ ~MapHas(skillsData, row.team) =>
                 row.score = 0 /\ row.programming = 0 /\ row.driver = 0
            /\ MapHas(skillsData, row.team) =>
                 /\ row.score = skillsData.map[row.team].score
                 /\ row.programming = skillsData.map[row.team].programming
                 /\ row.driver = skillsData.map[row.team].driver

\* roster 2B, 1A; ranking data for 1A and for 9Z, which is on no roster
C8_Witness ==
  /\ mergedData.built
  /\ eventTeams = <<"2B", "1A">>
  /\ MapHas(skillsData, "9Z")
  /\ MapHas(skillsData, "1A")
  /\ ~MapHas(skillsData, "2B")
  /\ Len(mergedData.rows) = 2
  /\ mergedData.rows[2].team = "2B"
  /\ mergedData.rows[2].score = 0

\* what the comparator orders by: the place of the team number in
\* localeCompare order, or the column's value with null taken as 0
SortKey(row, col) == IF col = "team" THEN TeamIndex(row.team) ELSE OrZero(row[col])

InSortOrder(rows, col, dir) ==
  \A i \in 1..(Len(rows) - 1) :
    IF dir = "desc" THEN SortKey(rows[i], col) >= SortKey(rows[i + 1], col)
    ELSE SortKey(rows[i], col) <= SortKey(rows[i + 1], col)

\* the rows that tie on a key are in the order the merged sequence has them
WithKey(rows, col, key) ==
  SelectSeq([i \in 1..Len(rows) |-> [rows[i] EXCEPT !.rank = 0]],
            LAMBDA row : SortKey(row, col) = key)

TiesKeepOrder(rows, col) ==
  \A key \in {SortKey(rows[i], col) : i \in 1..Len(rows)} :
    WithKey(rows, col, key) = WithKey(Merge(eventTeams), col, key)

\* C22: after the table is built and after every click on a column header,
\* the rows are in the order of the active column and direction, rows that
\* tie are in the order the merged sequence had them before the sort, the
\* row at position i (from 1) has rank i; a click on another column makes it
\* the active one, descending, or ascending for the team column, and a click
\* on the active column flips the direction.
C22_SortedRankedAndToggled ==
  [][mergedData'.built =>
       /\ InSortOrder(mergedData'.rows, sortColumn', sortDirection')
       /\ TiesKeepOrder(mergedData'.rows, sortColumn')
       /\ \A i \in 1..Len(mergedData'.rows) : mergedData'.rows[i].rank = i
       /\ mergedData.built =>
            /\ sortColumn' # sortColumn
                 => sortDirection' = (IF sortColumn' = "team" THEN "asc" ELSE "desc")
            /\ sortColumn' = sortColumn => sortDirection' # sortDirection]_vars

\* 2B (score 30) is before 1A (score 40) on the roster and both have the
\* programming score 10: the table sorted by score showed 1A first; after
\* two clicks on the programming column it is ascending and the tie leaves
\* 2B first
C22_Witness ==
  /\ mergedData.built
  /\ eventTeams = <<"2B", "1A">>
  /\ sortColumn = "programming"
  /\ sortDirection = "asc"
  /\ mergedData.rows[1].team = "2B"
  /\ mergedData.rows[1].score = 30
  /\ mergedData.rows[1].programming = 10
  /\ mergedData.rows[2].score = 40
  /\ mergedData.rows[2].programming = 10
  /\ mergedData.rows[2].rank = 2

\* team.recentMatchAvg !== null ? value : '-' (and the same for the maximum)
ShownAsAbsent(value) == value = NullNumber

\* C29: a row shows the match average and the match maximum as absent iff
\* the team has no match aggregate; a team with an aggregate shows the
\* aggregate's average, maximum and match count, also when they are 0.
C29_AbsentIffNoAggregate ==
  mergedData.built =>
    \A i \in 1..Len(mergedData.rows) :
      LET row == mergedData.rows[i]
      IN /\ ShownAsAbsent(row.recentMatchAvg) <=> ~MapHas(matchAverages, row.team)
         /\ ShownAsAbsent(row.recentMatchMax) <=> ~MapHas(matchAverages, row.team)
         /\ MapHas(matchAverages, row.team) =>
              /\ row.recentMatchAvg = matchAverages.map[row.team].average
              /\ row.recentMatchMax = matchAverages.map[row.team].max
              /\ row.recentMatchCount = matchAverages.map[row.team].matchCount

(***************************************************************************)
(*                     fetchMatchData (event-page.js)                      *)
(***************************************************************************)

\* longest match list of a response
MaxMatches == 3

\* the id of the team whose matches are fetched
ThisTeam == 7

\* a missing updated_at or an empty date field, a missing event code, a null
\* eventCodeFilter
NoDate == 0
NoCode == ""
NoFilter == ""

\* getDefaultFilterDate(): two months before today, as a day number
DefaultFilterDate == 2

\* one alliance of a match: whether ThisTeam is on it, and its score
Alliance(hasTeam, score) == [hasTeam |-> hasTeam, score |-> score]

Match(code, updated, red, blue) ==
  [code |-> code, updated_at |-> updated, alliances |-> <<red, blue>>]

\* the matches a response can list: event code (RE-1 also in lower case, or
\* missing), day of updated_at (or missing) and the two alliances
MatchKinds ==
  { Match("RE-1", 1, Alliance(TRUE, 10), Alliance(FALSE, 7)),
    Match("RE-1", 2, Alliance(FALSE, 5), Alliance(TRUE, 0)),
    Match("re-1", 2, Alliance(TRUE, 8), Alliance(FALSE, 9)),
    Match("RE-2", 3, Alliance(TRUE, 21), Alliance(FALSE, 2)),
    Match("RE-3", 4, Alliance(FALSE, 6), Alliance(FALSE, 4)),
    Match("RE-2", 4, Alliance(TRUE, NullNumber), Alliance(FALSE, NullNumber)),
    Match("RE-1", NoDate, Alliance(TRUE, 30), Alliance(FALSE, 1)),
    Match(NoCode, 3, Alliance(TRUE, 11), Alliance(FALSE, UndefinedNumber)),
    Match("RE-3", 5, Alliance(TRUE, NullNumber), Alliance(FALSE, 3)),
    Match("RE-2", 2, Alliance(FALSE, 12), Alliance(TRUE, UndefinedNumber)) }

MatchLists == SeqsUpTo(MatchKinds, MaxMatches)

\* the event codes fetchAllMatchAverages passes (null for a running event)
EventCodeFilters == {NoFilter, "RE-1", "re-2"}

\* String.prototype.toUpperCase on the event codes in use
codeToUpperCase(c) ==
  CASE c = "re-1" -> "RE-1"
    [] c = "re-2" -> "RE-2"
    [] OTHER -> c

\* the stored settings fetchMatchData can find: a token and a match window
MatchSettings ==
  { [apiToken |-> "T1"],
    [apiToken |-> "T1", matchFilterType |-> "since_date", matchFilterDate |-> NoDate, matchFilterCount |-> 5],
    [apiToken |-> "T1", matchFilterType |-> "since_date", matchFilterDate |-> 3, matchFilterCount |-> 5],
    [apiToken |-> "T1", matchFilterType |-> "since_date", matchFilterDate |-> 9, matchFilterCount |-> 5],
    [apiToken |-> "T1", matchFilterType |-> "last_n_events", matchFilterDate |-> 9, matchFilterCount |-> 1],
    [apiToken |-> "T1", matchFilterType |-> "last_n_events", matchFilterDate |-> 9, matchFilterCount |-> 2],
    [apiToken |-> "T1", matchFilterType |-> "all_events", matchFilterDate |-> 9, matchFilterCount |-> 5],
    [matchFilterType |-> "all_events", matchFilterDate |-> 9, matchFilterCount |-> 5] }

\* settings.matchFilterType || 'since_date', and the like
FilterType(obj) == IF Has(obj, "matchFilterType") THEN obj.matchFilterType ELSE "since_date"
FilterDate(obj) ==
  IF Has(obj, "matchFilterDate") /\ obj.matchFilterDate # NoDate THEN obj.matchFilterDate
  ELSE DefaultFilterDate
FilterCount(obj) ==
  IF Has(obj, "matchFilterCount") /\ obj.matchFilterCount # 0 THEN obj.matchFilterCount ELSE 5

\* a score that is neither undefined nor null
IsRecorded(score) == score # UndefinedNumber /\ score # NullNumber

\* the predicate of the first filter: updated_at and some alliance score
IsScored(m) ==
  /\ m.updated_at # NoDate
  /\ \E i \in 1..Len(m.alliances) : IsRecorded(m.alliances[i].score)

\* a stable sort of positions by their dates date[x], most recent first
\* (the comparator new Date(b.date) - new Date(a.date))
RECURSIVE InsertByDate(_, _, _)
InsertByDate(sorted, x, date) ==
  IF sorted = <<>> THEN <<x>>
  ELSE LET last == sorted[Len(sorted)]
       IN IF date[x] - date[last] > 0
          THEN Append(InsertByDate(SubSeq(sorted, 1, Len(sorted) - 1), x, date), last)
          ELSE Append(sorted, x)

RECURSIVE SortByDateDesc(_, _)
SortByDateDesc(seq, date) ==
  IF seq = <<>> THEN <<>>
  ELSE InsertByDate(SortByDateDesc(SubSeq(seq, 1, Len(seq) - 1), date), seq[Len(seq)], date)

Positions(list) == [i \in 1..Len(list) |-> i]

\* scoredMatches: the scored matches, most recent first (lines 575-579)
ScoredMatches(list) ==
  SortByDateDesc(SelectSeq(Positions(list), LAMBDA i : IsScored(list[i])),
                 [i \in 1..Len(list) |-> list[i].updated_at])

\* match.event?.code?.toUpperCase() === eventCodeFilter.toUpperCase()
IsOfEvent(m, filter) ==
  m.code # NoCode /\ codeToUpperCase(m.code) = codeToUpperCase(filter)

\* the event-code filter of lines 582-591
FilterByEvent(list, scored, filter) ==
  IF filter # NoFilter
  THEN SelectSeq(scored, LAMBDA i : IsOfEvent(list[i], filter))
  ELSE scored

\* match.event?.code || 'unknown'
GroupCode(m) == IF m.code = NoCode THEN "unknown" ELSE m.code

\* the Map eventMatches as the sequence of its values, in insertion order
RECURSIVE GroupByEvent(_, _, _)
GroupByEvent(list, scored, groups) ==
  IF scored = <<>> THEN groups
  ELSE LET i == Head(scored)
           code == GroupCode(list[i])
           known == \E g \in 1..Len(groups) : groups[g].code = code
           next == IF known
                   THEN [g \in 1..Len(groups) |->
                           IF groups[g].code = code
                           THEN [groups[g] EXCEPT !.matches = Append(@, i)]
                           ELSE groups[g]]
                   ELSE Append(groups, [code |-> code, date |-> list[i].updated_at,
                                        matches |-> <<i>>])
       IN GroupByEvent(list, Tail(scored), next)

\* sortedEvents: the events, most recent first (line 609)
SortedEvents(list, scored) ==
  LET groups == GroupByEvent(list, scored, <<>>)
      order == SortByDateDesc(Positions(groups), [g \in 1..Len(groups) |-> groups[g].date])
  IN [k \in 1..Len(order) |-> groups[order[k]]]

\* sortedEvents.slice(0, filterCount)
RECURSIVE LastEvents_byMatches(_, _)
LastEvents_byMatches(events, n) ==
  IF events = <<>> THEN <<>>
  ELSE IF Len(events[1].matches) >= n
       THEN <<[events[1] EXCEPT !.matches = SubSeq(@, 1, n)]>>
       ELSE <<events[1]>> \o LastEvents_byMatches(Tail(events), n - Len(events[1].matches))

LastEvents(events, n) == SubSeq(events, 1, IF n < Len(events) THEN n ELSE Len(events))

\* the choice of filteredEvents (lines 612-632)
FilteredEvents_windowAlways(events, filter, obj) ==
  IF FilterType(obj) = "all_events" THEN events
  ELSE IF FilterType(obj) = "last_n_events" THEN LastEvents(events, FilterCount(obj))
  ELSE SelectSeq(events, LAMBDA e : e.date >= FilterDate(obj))

FilteredEvents(events, filter, obj) ==
  IF filter # NoFilter THEN events
  ELSE IF FilterType(obj) = "all_events" THEN events
  ELSE IF FilterType(obj) = "last_n_events" THEN LastEvents(events, FilterCount(obj))
  ELSE SelectSeq(events, LAMBDA e : e.date >= FilterDate(obj))

\* filteredEvents.flatMap(event => event.matches)
RECURSIVE FlatMatches(_)
FlatMatches_latestOnly(events) == [k \in 1..Len(events) |-> events[k].matches[1]]

FlatMatches(events) ==
  IF events = <<>> THEN <<>> ELSE events[1].matches \o FlatMatches(Tail(events))

\* recentMatches of fetchMatchData for a response, a filter and the settings
RecentMatches(list, filter, obj) ==
  LET scored == FilterByEvent(list, ScoredMatches(list), filter)
  IN FlatMatches(FilteredEvents(SortedEvents(list, scored), filter, obj))

\* the alliance of the team whose score is not undefined, 0 when there is none
TeamAlliance(m) ==
  IF \E a \in 1..Len(m.alliances) :
       m.alliances[a].hasTeam /\ m.alliances[a].score # UndefinedNumber
  THEN CHOOSE a \in 1..Len(m.alliances) :
         /\ m.alliances[a].hasTeam /\ m.alliances[a].score # UndefinedNumber
         /\ \A b \in 1..(a - 1) :
              ~(m.alliances[b].hasTeam /\ m.alliances[b].score # UndefinedNumber)
  ELSE 0

\* a score as a summand: null counts as 0
ScoreValue(score) == IF score = NullNumber THEN 0 ELSE score

\* totalScore, maxScore and matchCount over the retained matches (642-684)
RECURSIVE Accumulate(_, _, _)
Accumulate(list, retained, acc) ==
  IF retained = <<>> THEN acc
  ELSE LET m == list[Head(retained)]
           a == TeamAlliance(m)
           next == IF a = 0 THEN acc
                   ELSE [totalScore |-> acc.totalScore + ScoreValue(m.alliances[a].score),
                         maxScore |-> IF ScoreValue(m.alliances[a].score) > acc.maxScore
                                      THEN ScoreValue(m.alliances[a].score) ELSE acc.maxScore,
                         matchCount |-> acc.matchCount + 1]
       IN Accumulate(list, Tail(retained), next)

\* Math.round of a quotient of naturals
RoundDiv_floor(a, b) == a \div b

RoundDiv(a, b) == (2 * a + b) \div (2 * b)

NoResult == [isNull |-> TRUE, average |-> 0, max |-> 0, matchCount |-> 0]

\* the value returned for the retained matches (lines 639-697)
Aggregate(list, retained) ==
  LET acc == Accumulate(list, retained, [totalScore |-> 0, maxScore |-> 0, matchCount |-> 0])
  IN IF retained = <<>> \/ acc.matchCount = 0 THEN NoResult
     ELSE [isNull |-> FALSE, average |-> RoundDiv(acc.totalScore, acc.matchCount),
           max |-> acc.maxScore, matchCount |-> acc.matchCount]

QuietMatch ==
  /\ fmPc = "idle"
  /\ teamId = ThisTeam
  /\ eventCodeFilter = NoFilter
  /\ matches = <<>>
  /\ recentMatches = <<>>
  /\ fmResult = NoResult

\* a call of fetchMatchData is about to be made; matches is what the server
\* would answer
InitMatch ==
  /\ fmPc = "idle"
  /\ teamId \in {0, ThisTeam}
  /\ eventCodeFilter \in EventCodeFilters
  /\ matches \in MatchLists
  /\ recentMatches = <<>>
  /\ fmResult = NoResult

\* fetchMatchData(teamId, eventCodeFilter) up to its fetch: null without
\* team id or without token
CallFetchMatchData ==
  /\ fmPc = "idle"
  /\ IF teamId = 0 \/ ~HasTokenField(loadSettings(storage).value)
     THEN fmPc' = "failed"
     ELSE fmPc' = "fetching"
  /\ UNCHANGED <<teamId, eventCodeFilter, matches, recentMatches, fmResult>>
  /\ UNCHANGED exceptMatch

\* the response is not ok, or fetchWithRetry or response.json() throws: null
MatchFetchFails ==
  /\ fmPc = "fetching"
  /\ fmPc' = "failed"
  /\ UNCHANGED <<teamId, eventCodeFilter, matches, recentMatches, fmResult>>
  /\ UNCHANGED exceptMatch

\* the response is ok: filter, group, select, flatten and aggregate
MatchFetchSucceeds ==
  /\ fmPc = "fetching"
  /\ fmPc' = "done"
  /\ recentMatches' = RecentMatches(matches, eventCodeFilter, loadSettings(storage).value)
  /\ fmResult' = Aggregate(matches, recentMatches')
  /\ UNCHANGED <<teamId, eventCodeFilter, matches>>
  /\ UNCHANGED exceptMatch

NextMatch ==
  \/ CallFetchMatchData
  \/ MatchFetchFails
  \/ MatchFetchSucceeds

(***************************************************************************)
(*                      Properties of fetchMatchData                       *)
(***************************************************************************)

\* the retained matches as a set of positions
Retained == {recentMatches[k] : k \in 1..Len(recentMatches)}

\* the scored matches of the response
Scored == {i \in 1..Len(matches) : IsScored(matches[i])}

StoredSettings == loadSettings(storage).value

\* C9: with an event-code filter the retained matches are exactly the scored
\* matches whose event code equals the filter ignoring case, each once,
\* whatever match window the settings hold.
C9_EventCodeOverridesWindow ==
  (fmPc = "done" /\ eventCodeFilter # NoFilter) =>
    /\ Retained = {i \in Scored :
                     /\ matches[i].code # NoCode
                     /\ codeToUpperCase(matches[i].code) = codeToUpperCase(eventCodeFilter)}
    /\ Len(recentMatches) = Cardinality(Retained)

\* the window is since day 9, later than every match, and the two scored
\* matches of RE-1 (one listed as re-1) are retained
C9_Witness ==
  /\ fmPc = "done"
  /\ eventCodeFilter = "RE-1"
  /\ FilterType(StoredSettings) = "since_date"
  /\ FilterDate(StoredSettings) = 9
  /\ \A i \in 1..Len(matches) : matches[i].updated_at < 9
  /\ Len(recentMatches) = 2
  /\ \E k \in 1..2 : matches[recentMatches[k]].code = "re-1"
  /\ \E i \in 1..Len(matches) : matches[i].code = "RE-2" /\ IsScored(matches[i])

\* the parent events of the scored matches, and the date of an event: the
\* latest updated_at of its scored matches
ParentEvents == {GroupCode(matches[i]) : i \in Scored}
MatchesOf(e) == {i \in Scored : GroupCode(matches[i]) = e}
EventDate(e) ==
  CHOOSE d \in {matches[i].updated_at : i \in MatchesOf(e)} :
    \A i \in MatchesOf(e) : matches[i].updated_at <= d
RetainedEvents == {GroupCode(matches[i]) : i \in Retained}

\* C10: without event-code filter and with last_n_events and count N, the
\* retained matches are all scored matches of N distinct parent events (of
\* all events when there are fewer), no retained event being older than an
\* event left out, however many matches an event has.
C10_LastNEventsByEvent ==
  (fmPc = "done" /\ eventCodeFilter = NoFilter
     /\ FilterType(StoredSettings) = "last_n_events") =>
    /\ Len(recentMatches) = Cardinality(Retained)
    /\ Retained = UNION {MatchesOf(e) : e \in RetainedEvents}
    /\ Cardinality(RetainedEvents) =
         (IF FilterCount(StoredSettings) < Cardinality(ParentEvents)
          THEN FilterCount(StoredSettings) ELSE Cardinality(ParentEvents))
    /\ \A e \in RetainedEvents, f \in ParentEvents \ RetainedEvents :
         EventDate(e) >= EventDate(f)

\* N = 1: the one match of the latest event RE-2 is retained, the two
\* matches of the older event RE-1 are not
C10_Witness ==
  /\ fmPc = "done"
  /\ eventCodeFilter = NoFilter
  /\ FilterType(StoredSettings) = "last_n_events"
  /\ FilterCount(StoredSettings) = 1
  /\ Cardinality(MatchesOf("RE-1")) = 2
  /\ Cardinality(MatchesOf("RE-2")) = 1
  /\ Retained = MatchesOf("RE-2")

\* C25: the match window selects parent events, not single matches: under
\* every window policy each parent event has all of its scored matches
\* retained or none of them, and under since_date (no event-code filter) an
\* event is retained iff its date is on or after the configured date.
C25_WindowSelectsWholeEvents ==
  fmPc = "done" =>
    /\ \A e \in ParentEvents : MatchesOf(e) \subseteq Retained \/ MatchesOf(e) \cap Retained = {}
    /\ (eventCodeFilter = NoFilter /\ FilterType(StoredSettings) = "since_date")
         => \A e \in ParentEvents :
              e \in RetainedEvents <=> EventDate(e) >= FilterDate(StoredSettings)

\* since day 3: RE-2 has matches of day 3 and day 2 and both are retained,
\* the match of RE-1 of day 1 is not
C25_Witness ==
  /\ fmPc = "done"
  /\ eventCodeFilter = NoFilter
  /\ FilterType(StoredSettings) = "since_date"
  /\ FilterDate(StoredSettings) = 3
  /\ Cardinality(MatchesOf("RE-2")) = 2
  /\ Retained = MatchesOf("RE-2")
  /\ \E i \in Retained : matches[i].updated_at = 2
  /\ MatchesOf("RE-1") # {}

\* the retained matches with the team on an alliance, and those where that
\* alliance carries a score field (null or a number)
OnAlliance(i) == {a \in 1..Len(matches[i].alliances) : matches[i].alliances[a].hasTeam}
TeamMatches == {i \in Retained : OnAlliance(i) # {}}
TeamMatchesWithScore ==
  {i \in Retained : \E a \in OnAlliance(i) : matches[i].alliances[a].score # UndefinedNumber}

\* the score of the team's alliance in match i; a score that is null or
\* missing adds nothing
TeamScore(i) ==
  LET a == CHOOSE a \in OnAlliance(i) : TRUE
  IN IF matches[i].alliances[a].score < 0 THEN 0 ELSE matches[i].alliances[a].score

RECURSIVE SumOfScores(_)
SumOfScores(S) ==
  IF S = {} THEN 0
  ELSE LET i == CHOOSE i \in S : TRUE IN TeamScore(i) + SumOfScores(S \ {i})

LargestScore(S) == CHOOSE x \in {TeamScore(i) : i \in S} : \A i \in S : TeamScore(i) <= x

\* twice the distance of avg from total / count is at most 1, the half
\* rounded up
IsRounded(avg, total, count) ==
  /\ 2 * avg * count <= 2 * total + count
  /\ 2 * avg * count > 2 * total - count

AggregateOver(S) ==
  IF S = {} THEN fmResult.isNull
  ELSE /\ ~fmResult.isNull
       /\ fmResult.matchCount = Cardinality(S)
       /\ fmResult.max = LargestScore(S)
       /\ IsRounded(fmResult.average, SumOfScores(S), Cardinality(S))

\* C11 as stated: the aggregate is over every retained match in which an
\* alliance contains the team, and absent when there is none.
C11_AggregateOverTeamMatches ==
  fmPc = "done" => AggregateOver(TeamMatches)

\* C11 amended: the aggregate is over the retained matches in which the
\* team's alliance has a score field (a null score counting as 0):
\* matchCount is their number, max their largest score, average the rounded
\* mean, and the result is null when there is none.
C11_AggregateOverScoredTeamMatches ==
  fmPc = "done" => AggregateOver(TeamMatchesWithScore)

\* three matches retained, the team's alliance without score field in one:
\* 10 and 21 give matchCount 2, max 21 and average round(15.5) = 16
C11_Witness ==
  /\ fmPc = "done"
  /\ Cardinality(Retained) = 3
  /\ TeamMatches = Retained
  /\ Cardinality(TeamMatchesWithScore) = 2
  /\ fmResult = [isNull |-> FALSE, average |-> 16, max |-> 21, matchCount |-> 2]

(***************************************************************************)
(*      fetchAllMatchAverages and fetchAllSeasonAwards (event-page.js)     *)
(***************************************************************************)

\* longest list of teams handed to the two operations
MaxTeams == 6

\* const batchSize = 5
batchSize == 5

BatchOps == {"fetchAllMatchAverages", "fetchAllSeasonAwards"}

\* the lists of teams: every team has a teamId, or all but one
TeamLists ==
  UNION {{[t \in 1..n |-> t # missing] : missing \in 0..n} : n \in 0..MaxTeams}

\* how the per-team fetch of a team ends: fetchMatchData gives an aggregate
\* or null, fetchTeamSeasonAwards gives awards or [], or the call throws
FetchOutcomes == {"value", "none", "threw"}

\* teams.slice(i, i + batchSize), as positions in teams
Batch_rest(i, teams) == {t \in 1..Len(teams) : i < t}

Batch(i, teams) == {t \in 1..Len(teams) : i < t /\ t <= i + batchSize}

\* the try/catch around the per-team fetch keeps its promise from rejecting
InnerCatch_missing == FALSE

InnerCatch == TRUE

QuietBatch ==
  /\ batchOp = "fetchAllMatchAverages"
  /\ bPc = "idle"
  /\ bI = 0
  /\ bTeams = <<>>
  /\ bState = <<>>
  /\ bIssued = <<>>
  /\ bMap = {}

InitBatch ==
  /\ batchOp \in BatchOps
  /\ bPc = "idle"
  /\ bI = 0
  /\ bTeams \in TeamLists
  /\ bState = [t \in 1..Len(bTeams) |-> "waiting"]
  /\ bIssued = <<>>
  /\ bMap = {}

\* the positions of a set in increasing order
RECURSIVE InOrder(_)
InOrder(S) ==
  IF S = {} THEN <<>>
  ELSE LET t == CHOOSE t \in S : \A u \in S : t <= u IN <<t>> \o InOrder(S \ {t})

\* batch.map(async team => ...): every team of the batch with a teamId has
\* its fetch issued, in list order, before the first await returns
IssueBatch(i) ==
  LET withId == {t \in Batch(i, bTeams) : bTeams[t]}
  IN /\ bState' = [t \in 1..Len(bTeams) |->
                     IF t \in withId THEN "pending"
                     ELSE IF t \in Batch(i, bTeams) THEN "skipped" ELSE bState[t]]
     /\ bIssued' = bIssued \o InOrder(withId)

\* the call: an empty map without token, else the first batch
CallFetchAll ==
  /\ bPc = "idle"
  /\ IF ~HasToken(loadSettings(storage).value) \/ Len(bTeams) = 0
     THEN bPc' = "returned" /\ UNCHANGED <<bState, bIssued>>
     ELSE bPc' = "batch" /\ IssueBatch(0)
  /\ UNCHANGED <<batchOp, bI, bTeams, bMap>>
  /\ UNCHANGED exceptBatch

\* the fetch of one team settles; a rejected promise rejects Promise.all and
\* the outer catch ends the operation
SettleFetch(t, outcome) ==
  /\ bPc = "batch"
  /\ bState[t] = "pending"
  /\ bState' = [bState EXCEPT ![t] = outcome]
  /\ bMap' = IF outcome = "value" THEN bMap \cup {t} ELSE bMap
  /\ bPc' = IF outcome = "threw" /\ ~InnerCatch THEN "returned" ELSE bPc
  /\ UNCHANGED <<batchOp, bI, bTeams, bIssued>>
  /\ UNCHANGED exceptBatch

\* await Promise.all(promises) resumes: delay when teams are left, else return
BatchSettled ==
  /\ bPc = "batch"
  /\ \A t \in Batch(bI, bTeams) : bState[t] # "pending"
  /\ bPc' = IF bI + batchSize < Len(bTeams) THEN "delay" ELSE "returned"
  /\ bI' = IF bI + batchSize < Len(bTeams) THEN bI ELSE bI + batchSize
  /\ UNCHANGED <<batchOp, bTeams, bState, bIssued, bMap>>
  /\ UNCHANGED exceptBatch

\* the 100 ms timer fires: i += batchSize and the next batch is issued
DelayElapsed ==
  /\ bPc = "delay"
  /\ bPc' = "batch"
  /\ bI' = bI + batchSize
  /\ IssueBatch(bI + batchSize)
  /\ UNCHANGED <<batchOp, bTeams, bMap>>
  /\ UNCHANGED exceptBatch

NextBatch ==
  \/ CallFetchAll
  \/ \E t \in 1..Len(bTeams), outcome \in FetchOutcomes : SettleFetch(t, outcome)
  \/ BatchSettled
  \/ DelayElapsed

(***************************************************************************)
(*                  Properties of the batched operations                   *)
(***************************************************************************)

InFlight == {t \in 1..Len(bTeams) : bState[t] = "pending"}

\* the consecutive groups of five the claim speaks of
GroupOf(t) == (t - 1) \div 5

\* C12: teams are taken in consecutive batches of 5: whenever the fetch of
\* a team has been issued, every fetch issued for a team of an earlier batch
\* has settled and every earlier team with a teamId has been issued; the
\* fetches are issued in list order and at most 5 are in flight.
C12_BatchesOfFive ==
  /\ Cardinality(InFlight) <= 5
  /\ \A k \in 1..Len(bIssued) : \A u \in 1..Len(bTeams) :
       (GroupOf(u) < GroupOf(bIssued[k]) /\ bTeams[u]) => bState[u] \in FetchOutcomes
  /\ \A k \in 1..Len(bIssued) : \A j \in 1..(k - 1) : bIssued[j] < bIssued[k]
  /\ \A t \in InFlight : \A u \in InFlight : GroupOf(t) = GroupOf(u)

\* the sixth team's fetch is in flight after five fetches of the first batch
\* have settled in an order other than list order
C12_Witness ==
  /\ Len(bTeams) = 6
  /\ \A t \in 1..6 : bTeams[t]
  /\ InFlight = {6}
  /\ bState[1] = "none" /\ bState[2] = "threw" /\ bState[3] = "value"

\* C13: when the operation has returned with a token stored, the fetch of
\* every team with a teamId has settled, whatever the fetches of the other
\* teams did, and the map holds exactly the teams whose fetch gave a value.
C13_FailureDoesNotAbort ==
  (bPc = "returned" /\ HasToken(loadSettings(storage).value)) =>
    /\ \A t \in 1..Len(bTeams) : bTeams[t] => bState[t] \in FetchOutcomes
    /\ bMap = {t \in 1..Len(bTeams) : bTeams[t] /\ bState[t] = "value"}

\* the fetches of teams 2 and 3 fail (null, and a throw), the others of the
\* batch and the one of the second batch give an aggregate
C13_Witness ==
  /\ bPc = "returned"
  /\ batchOp = "fetchAllMatchAverages"
  /\ Len(bTeams) = 6
  /\ bState = <<"value", "none", "threw", "value", "value", "value">>
  /\ bMap = {1, 4, 5, 6}


(***************************************************************************)
(*          fetchSkillsData and fetchEventSkillsData (event-page.js)       *)
(***************************************************************************)

\* longest list of entries in a response
MaxItems == 3

\* an event id of the API
SomeEventId == 55

\* the entries of the unauthenticated ranking query: team.team (missing:
\* ""), scores.score, scores.programming, scores.driver (missing: null)
GlobalItem(team, score, programming, driver) ==
  [team |-> team, score |-> score, programming |-> programming, driver |-> driver]

GlobalItems ==
  { GlobalItem("1A", 30, 10, 20),
    GlobalItem("1a", 30, 30, 0),
    GlobalItem("1A", 50, 50, NullNumber),
    GlobalItem("", 70, 40, 30) }

\* the entries of the event's skills: team.name, type and score of one run
EventItem(team, type, score) == [team |-> team, type |-> type, score |-> score]

EventItems ==
  { EventItem("1A", "programming", 10),
    EventItem("1a", "programming", 25),
    EventItem("1A", "driver", 20),
    EventItem("1A", "driver", 5),
    EventItem("2B", "driver", NullNumber),
    EventItem("", "driver", 40) }

\* fetchWithRetry or response.json() throws; a response that is not ok; an
\* ok response with its entries
Failed == [kind |-> "error", items |-> <<>>]
NotOk == [kind |-> "status", items |-> <<>>]
Ok(items) == [kind |-> "ok", items |-> items]

GlobalResponses == {Failed, NotOk} \cup {Ok(l) : l \in SeqsUpTo(GlobalItems, MaxItems)}
EventResponses == {Failed, NotOk} \cup {Ok(l) : l \in SeqsUpTo(EventItems, MaxItems)}

\* the record stored for an entry of the ranking query: parseFloat(x || 0)
GlobalRecord(item) ==
  [score |-> OrZero(item.score), programming |-> OrZero(item.programming),
   driver |-> OrZero(item.driver)]

\* one step of data.forEach in fetchSkillsData (lines 459-479)
AddGlobalItem_lastOnTie(map, item) ==
  IF item.team = "" THEN map
  ELSE IF ~Has(map, toUpperCase(item.team))
          \/ OrZero(item.score) >= map[toUpperCase(item.team)].score
       THEN Put(map, toUpperCase(item.team), GlobalRecord(item))
       ELSE map

AddGlobalItem(map, item) ==
  IF item.team = "" THEN map
  ELSE IF ~Has(map, toUpperCase(item.team))
          \/ OrZero(item.score) > map[toUpperCase(item.team)].score
       THEN Put(map, toUpperCase(item.team), GlobalRecord(item))
       ELSE map

RECURSIVE AddGlobalItems(_, _)
AddGlobalItems(map, items) ==
  IF items = <<>> THEN map
  ELSE AddGlobalItems(AddGlobalItem(map, Head(items)), Tail(items))

\* one step of skills.forEach in fetchEventSkillsData (lines 263-280)
AddEventItem_lastRun(teamSkills, item) ==
  IF item.team = "" THEN teamSkills
  ELSE LET teamNum == toUpperCase(item.team)
           team == IF Has(teamSkills, teamNum) THEN teamSkills[teamNum]
                   ELSE [programming |-> 0, driver |-> 0]
           score == OrZero(item.score)
       IN Put(teamSkills, teamNum,
              IF item.type = "programming" THEN [team EXCEPT !.programming = score]
              ELSE IF item.type = "driver" THEN [team EXCEPT !.driver = score]
              ELSE team)

AddEventItem(teamSkills, item) ==
  IF item.team = "" THEN teamSkills
  ELSE LET teamNum == toUpperCase(item.team)
           team == IF Has(teamSkills, teamNum) THEN teamSkills[teamNum]
                   ELSE [programming |-> 0, driver |-> 0]
           score == OrZero(item.score)
       IN Put(teamSkills, teamNum,
              IF item.type = "programming" /\ score > team.programming
              THEN [team EXCEPT !.programming = score]
              ELSE IF item.type = "driver" /\ score > team.driver
              THEN [team EXCEPT !.driver = score]
              ELSE team)

RECURSIVE AddEventItems(_, _)
AddEventItems(teamSkills, items) ==
  IF items = <<>> THEN teamSkills
  ELSE AddEventItems(AddEventItem(teamSkills, Head(items)), Tail(items))

\* teamSkills.forEach: the record stored for a team of the event
EventRecord(team) ==
  [score |-> team.programming + team.driver,
   programming |-> team.programming, driver |-> team.driver]

EventSkills(items) ==
  LET teamSkills == AddEventItems(EmptyObj, items)
  IN [t \in DOMAIN teamSkills |-> EventRecord(teamSkills[t])]

\* skillsData.size > 0
NonEmpty(m) == DOMAIN m.map # {}

QuietSkills ==
  /\ sfMode = "global"
  /\ sfPc = "idle"
  /\ sfEventId = 0
  /\ sfResponses = <<>>
  /\ sfReturn = FALSE

\* init is about to call one of the two fetchers; skillsData is still null
InitSkills ==
  /\ sfPc = "idle"
  /\ sfReturn = FALSE
  /\ sfMode \in {"global", "event"}
  /\ IF sfMode = "global"
     THEN sfEventId = 0 /\ sfResponses \in GlobalResponses \X GlobalResponses
     ELSE sfEventId \in {0, SomeEventId} /\ sfResponses \in {<<r>> : r \in EventResponses}
  /\ skillsData = NoMap
  /\ matchAverages = NoMap
  /\ sortColumn = "score"
  /\ sortDirection = "desc"
  /\ sectionFound = FALSE
  /\ mergedData = NoTable

\* fetchSkillsData(): a new map, then the request for Elementary
CallFetchSkillsData ==
  /\ sfMode = "global" /\ sfPc = "idle"
  /\ skillsData' = MapOf(EmptyObj)
  /\ sfPc' = "request1"
  /\ UNCHANGED <<sfMode, sfEventId, sfResponses, sfReturn>>
  /\ UNCHANGED exceptSkills

\* one pass of the loop over the grade levels: a request that fails or is
\* not ok is skipped; after Middle School the function returns
GradeLevelResponse ==
  /\ sfMode = "global" /\ sfPc \in {"request1", "request2"}
  /\ LET resp == sfResponses[IF sfPc = "request1" THEN 1 ELSE 2]
     IN skillsData' = IF resp.kind = "ok"
                      THEN MapOf(AddGlobalItems(skillsData.map, resp.items))
                      ELSE skillsData
  /\ sfPc' = IF sfPc = "request1" THEN "request2" ELSE "returned"
  /\ sfReturn' = IF sfPc = "request2" THEN NonEmpty(skillsData') ELSE sfReturn
  /\ UNCHANGED <<sfMode, sfEventId, sfResponses>>
  /\ UNCHANGED exceptSkills

\* fetchEventSkillsData(eventId) up to its request: false without event id
\* or without token, before the map is replaced
CallFetchEventSkillsData ==
  /\ sfMode = "event" /\ sfPc = "idle"
  /\ IF sfEventId = 0 \/ ~HasTokenField(loadSettings(storage).value)
     THEN sfPc' = "returned" /\ sfReturn' = FALSE /\ UNCHANGED skillsData
     ELSE sfPc' = "request1" /\ skillsData' = MapOf(EmptyObj) /\ UNCHANGED sfReturn
  /\ UNCHANGED <<sfMode, sfEventId, sfResponses>>
  /\ UNCHANGED exceptSkills

\* the answer to the event's request: false when it failed or is not ok,
\* else the best runs per team
EventSkillsResponse ==
  /\ sfMode = "event" /\ sfPc = "request1"
  /\ LET resp == sfResponses[1]
     IN skillsData' = IF resp.kind = "ok" THEN MapOf(EventSkills(resp.items))
                      ELSE skillsData
  /\ sfReturn' = (sfResponses[1].kind = "ok" /\ NonEmpty(skillsData'))
  /\ sfPc' = "returned"
  /\ UNCHANGED <<sfMode, sfEventId, sfResponses>>
  /\ UNCHANGED exceptSkills

NextSkills ==
  \/ CallFetchSkillsData
  \/ GradeLevelResponse
  \/ CallFetchEventSkillsData
  \/ EventSkillsResponse

(***************************************************************************)
(*                  Properties of the ranking fetchers                     *)
(***************************************************************************)

\* the entries of the successful requests, in the order they are seen
SeenItems ==
  (IF sfResponses[1].kind = "ok" THEN sfResponses[1].items ELSE <<>>)
    \o (IF Len(sfResponses) > 1 /\ sfResponses[2].kind = "ok"
        THEN sfResponses[2].items ELSE <<>>)

\* the positions of the entries of a team number (upper case), and the team
\* numbers returned
EntriesOf(t) ==
  {k \in 1..Len(SeenItems) : SeenItems[k].team # "" /\ toUpperCase(SeenItems[k].team) = t}
ReturnedTeams == {t \in {"1A", "2B"} : EntriesOf(t) # {}}

\* the first entry of a team among those with its highest combined score
BestEntry(t) ==
  CHOOSE k \in EntriesOf(t) :
    \A j \in EntriesOf(t) :
      \/ SeenItems[j].score < SeenItems[k].score
      \/ (SeenItems[j].score = SeenItems[k].score /\ k <= j)

\* C14: after fetchSkillsData the map has exactly the team numbers returned
\* by the successful grade-level requests, each with the scores of its entry
\* of highest combined score, the first one on equal scores; a request that
\* failed or was not ok contributes nothing and takes nothing away.
C14_HighestScoreFirstSeen ==
  (sfMode = "global" /\ sfPc = "returned") =>
    /\ ~skillsData.isNull
    /\ DOMAIN skillsData.map = ReturnedTeams
    /\ \A t \in ReturnedTeams :
         LET e == SeenItems[BestEntry(t)]
         IN /\ skillsData.map[t].score = e.score
            /\ skillsData.map[t].programming = (IF e.programming = NullNumber THEN 0 ELSE e.programming)
            /\ skillsData.map[t].driver = (IF e.driver = NullNumber THEN 0 ELSE e.driver)

\* the Elementary request is not ok; Middle School lists 1a with 30 after 1A
\* with 30, and the record of 1A stays
C14_Witness ==
  /\ sfMode = "global" /\ sfPc = "returned"
  /\ sfResponses[1] = NotOk
  /\ sfResponses[2] = Ok(<<GlobalItem("1A", 30, 10, 20), GlobalItem("1a", 30, 30, 0)>>)
  /\ MapHas(skillsData, "1A")
  /\ skillsData.map["1A"] = [score |-> 30, programming |-> 10, driver |-> 20]

\* the largest score of the runs of a type of a team, 0 without such a run
BestRun(t, type) ==
  LET runs == {IF SeenItems[k].score = NullNumber THEN 0 ELSE SeenItems[k].score :
                 k \in {j \in EntriesOf(t) : SeenItems[j].type = type}} \cup {0}
  IN CHOOSE x \in runs : \A y \in runs : y <= x

\* C15: after fetchEventSkillsData got an ok response, every team of the
\* response is in the map with programming and driver the best run of each
\* type (0 if none) and score their sum.
C15_EventScoreIsSumOfBestRuns ==
  (sfMode = "event" /\ sfPc = "returned" /\ sfResponses[1].kind = "ok"
     /\ ~skillsData.isNull) =>
    /\ DOMAIN skillsData.map = ReturnedTeams
    /\ \A t \in ReturnedTeams :
         /\ skillsData.map[t].programming = BestRun(t, "programming")
         /\ skillsData.map[t].driver = BestRun(t, "driver")
         /\ skillsData.map[t].score = BestRun(t, "programming") + BestRun(t, "driver")

\* programming runs of 25 and then 10 and a driver run of 20: 25 + 20
C15_Witness ==
  /\ sfMode = "event" /\ sfPc = "returned"
  /\ sfResponses[1] = Ok(<<EventItem("1a", "programming", 25),
                           EventItem("1A", "programming", 10),
                           EventItem("1A", "driver", 20)>>)
  /\ MapHas(skillsData, "1A")
  /\ skillsData.map["1A"] = [score |-> 45, programming |-> 25, driver |-> 20]

NoTokenStored == ~HasToken(loadSettings(storage).value)
NoEntries == skillsData.isNull \/ DOMAIN skillsData.map = {}

\* C16 as stated: a fetcher that has returned without stored token, or after
\* a response that was not a success, has left the map without entries.
C16_NoTokenOrNotOkGivesNoEntries ==
  (sfPc = "returned"
     /\ (NoTokenStored \/ \E k \in 1..Len(sfResponses) : sfResponses[k].kind = "status")) =>
    NoEntries

\* C16 amended: fetchEventSkillsData returns with no entries in the map when
\* no token is stored or its response is not ok; fetchSkillsData, which
\* sends no token, returns with no entries when neither of its two requests
\* gave an ok response.
C16_NoUsableResponseGivesNoEntries ==
  /\ (sfMode = "event" /\ sfPc = "returned"
        /\ (NoTokenStored \/ sfResponses[1].kind # "ok")) => NoEntries /\ ~sfReturn
  /\ (sfMode = "global" /\ sfPc = "returned"
        /\ \A k \in 1..2 : sfResponses[k].kind # "ok") => NoEntries /\ ~sfReturn

\* no token is stored and the event's response would have had entries
C16_Witness ==
  /\ sfMode = "event" /\ sfPc = "returned"
  /\ sfEventId = SomeEventId
  /\ NoTokenStored
  /\ sfResponses[1].kind = "ok" /\ Len(sfResponses[1].items) = 2
  /\ skillsData = NoMap

(***************************************************************************)
(*             getPercentile (event-page.js and content.js)                *)
(***************************************************************************)

\* JavaScript numbers are IEEE 754 doubles: 53 significant bits, results
\* rounded to nearest, ties to even.  A positive double is a record of its
\* 53 bits, most significant first, and the exponent of its last bit.
SignificantBits == 53

RECURSIVE Pow2(_)
Pow2(k) == IF k = 0 THEN 1 ELSE 2 * Pow2(k - 1)

RECURSIVE Zeros(_)
Zeros(n) == IF n = 0 THEN <<>> ELSE <<0>> \o Zeros(n - 1)

\* v in count bits, most significant first
RECURSIVE ToBits(_, _)
ToBits(v, count) ==
  IF count = 0 THEN <<>>
  ELSE IF v % 2 = 0 THEN Append(ToBits(v \div 2, count - 1), 0)
  ELSE Append(ToBits(v \div 2, count - 1), 1)

RECURSIVE BitsValue(_)
BitsValue(bits) ==
  IF bits = <<>> THEN 0 ELSE 2 * BitsValue(SubSeq(bits, 1, Len(bits) - 1)) + bits[Len(bits)]

\* the least k >= 1 with b * 2^k >= n, for 0 < b < n
RECURSIVE LeastShift(_, _, _)
LeastShift(b, n, k) == IF b * Pow2(k) >= n THEN k ELSE LeastShift(b, n, k + 1)

\* the first 54 bits of r / n (r < n) and the remainder left, by long
\* division in three digits of 18 bits
DivideBits(r, n) ==
  LET firstDigit == (r * Pow2(18)) \div n
      firstRem == (r * Pow2(18)) % n
      secondDigit == (firstRem * Pow2(18)) \div n
      secondRem == (firstRem * Pow2(18)) % n
      thirdDigit == (secondRem * Pow2(18)) \div n
      thirdRem == (secondRem * Pow2(18)) % n
  IN [bits |-> ToBits(firstDigit, 18) \o ToBits(secondDigit, 18) \o ToBits(thirdDigit, 18),
      rem |-> thirdRem]

\* bits + 1; carry is 1 when every bit was 1
Increment(bits) ==
  LET zeroAt == {i \in 1..Len(bits) : bits[i] = 0}
      lastZero == CHOOSE i \in zeroAt : \A j \in zeroAt : j <= i
  IN IF zeroAt = {} THEN [bits |-> <<1>> \o Zeros(Len(bits) - 1), carry |-> 1]
     ELSE [bits |-> [i \in 1..Len(bits) |->
                       IF i < lastZero THEN bits[i] ELSE IF i = lastZero THEN 1 ELSE 0],
           carry |-> 0]

\* round to nearest, ties to even: guard is the first bit dropped, sticky
\* tells whether a later dropped bit is set
RoundToEven(bits, guard, sticky) ==
  IF guard = 1 /\ (sticky \/ bits[Len(bits)] = 1)
  THEN Increment(bits)
  ELSE [bits |-> bits, carry |-> 0]

\* the double nearest to b / n, for 0 < b < n
DoubleQuotient(b, n) ==
  LET shift == LeastShift(b, n, 1)
      quot == DivideBits(b * Pow2(shift - 1), n)
      rounded == RoundToEven(SubSeq(quot.bits, 1, SignificantBits),
                             quot.bits[SignificantBits + 1], quot.rem # 0)
  IN [bits |-> rounded.bits, exp |-> rounded.carry - (shift + SignificantBits - 1)]

\* bits * 100 exactly, in 60 bits: the 53 bits are taken as digits of 17,
\* 18 and 18 bits, each multiplied and the carries passed upwards
HundredFold(bits) ==
  LET lowProduct == 100 * BitsValue(SubSeq(bits, 36, 53))
      midProduct == 100 * BitsValue(SubSeq(bits, 18, 35)) + lowProduct \div Pow2(18)
      highProduct == 100 * BitsValue(SubSeq(bits, 1, 17)) + midProduct \div Pow2(18)
  IN ToBits(highProduct, 24) \o ToBits(midProduct % Pow2(18), 18)
       \o ToBits(lowProduct % Pow2(18), 18)

RECURSIVE StripZeros(_)
StripZeros(bits) == IF bits # <<>> /\ bits[1] = 0 THEN StripZeros(Tail(bits)) ELSE bits

\* the double nearest to d * 100
TimesHundred(d) ==
  LET product == StripZeros(HundredFold(d.bits))
      droppedBits == Len(product) - SignificantBits
      roundedProduct ==
        RoundToEven(SubSeq(product, 1, SignificantBits), product[SignificantBits + 1],
                    \E i \in (SignificantBits + 2)..Len(product) : product[i] = 1)
  IN [bits |-> roundedProduct.bits, exp |-> d.exp + droppedBits + roundedProduct.carry]

\* Math.round of a positive double below 128: the nearest integer, a half
\* goes up
MathRound(d) ==
  LET integerBits == SignificantBits + d.exp
  IN IF integerBits < 0 THEN 0
     ELSE IF integerBits >= SignificantBits THEN BitsValue(d.bits) * Pow2(d.exp)
     ELSE BitsValue(SubSeq(d.bits, 1, integerBits)) + d.bits[integerBits + 1]

\* Math.round((below / length) * 100)
RoundedPercent(below, length) ==
  IF below = 0 THEN 0
  ELSE IF below = length THEN 100
  ELSE MathRound(TimesHundred(DoubleQuotient(below, length)))

\* allScores.filter(s => s < score).length
CountBelow(score, allScores) ==
  Cardinality({i \in 1..Len(allScores) : allScores[i] < score})

\* getPercentile of event-page.js
getPercentile(score, allScores) ==
  IF Len(allScores) = 0 THEN 0
  ELSE RoundedPercent(CountBelow(score, allScores), Len(allScores))

\* getPercentile of content.js, which buildCustomTable calls for the rows
\* of filteredData only, so never with an empty allScores
contentGetPercentile(score, allScores) ==
  RoundedPercent(CountBelow(score, allScores), Len(allScores))

(***************************************************************************)
(*      The custom table of the skills page and its percentiles            *)
(***************************************************************************)

\* the largest reference population
MaxPopulation == 40

\* String.prototype.toLowerCase and trim, on texts written as sequences of
\* characters
LowerChar(c) ==
  CASE c = "A" -> "a"
    [] c = "B" -> "b"
    [] c = "C" -> "c"
    [] OTHER -> c

toLowerCase(text) == [i \in 1..Len(text) |-> LowerChar(text[i])]

RECURSIVE trimStart(_)
trimStart(text) == IF text # <<>> /\ text[1] = " " THEN trimStart(Tail(text)) ELSE text

RECURSIVE trimEnd(_)
trimEnd(text) ==
  IF text # <<>> /\ text[Len(text)] = " " THEN trimEnd(SubSeq(text, 1, Len(text) - 1))
  ELSE text

trim(text) == trimEnd(trimStart(text))

\* String.prototype.includes
includes(text, part) ==
  \E k \in 0..(Len(text) - Len(part)) : SubSeq(text, k + 1, k + Len(part)) = part

\* an element of allData, as parseApiData builds it (the fields the table
\* and the filters read)
DataItem(team, score, eventRegion, country, region, affiliations) ==
  [team |-> team, score |-> score, teamName |-> <<>>, organization |-> <<>>,
   eventRegion |-> eventRegion, country |-> country, region |-> region,
   affiliations |-> affiliations]

\* what parseApiData gives for the responses of the ranking API: three teams
\* of two regions, two teams of one score, five teams of which one has no
\* score, one team per score from 1 upwards,
\* and no team at all
ThreeTeams ==
  <<DataItem(<<"1", "A">>, 10, "E1", "C1", "R1", {"A1"}),
    DataItem(<<"2", "B">>, 20, "E1", "C1", "R1", {}),
    DataItem(<<"3", "C">>, 0, "E2", "C2", "R2", {"A1"})>>

TiedTeams ==
  <<DataItem(<<"1", "A">>, 5, "E1", "C1", "R1", {}),
    DataItem(<<"2", "B">>, 5, "E1", "C2", "R2", {"A1"})>>

FiveTeams ==
  <<DataItem(<<"1", "A">>, 30, "E1", "C1", "R1", {}),
    DataItem(<<"2", "B">>, 10, "E1", "C1", "R1", {}),
    DataItem(<<"3", "C">>, 0, "E1", "C1", "R1", {}),
    DataItem(<<"4", "A">>, 40, "E1", "C1", "R1", {}),
    DataItem(<<"5", "B">>, 20, "E1", "C1", "R1", {})>>

Ladder(n) == [i \in 1..n |-> DataItem(Append(ToDecimal(i), "A"), i, "E1", "C1", "R1", {})]

ApiData == {<<>>, ThreeTeams, TiedTeams, FiveTeams, Ladder(MaxPopulation)}

\* what getClientFilters reads from the controls of the page
DefaultFilters ==
  [eventRegion |-> "", countryName |-> "All Countries", regionName |-> "All Regions",
   affiliations |-> {}]

FilterControls == {"eventRegion", "countryName", "regionName", "affiliations"}

ControlValues(control) ==
  CASE control = "eventRegion" -> {"", "E1"}
    [] control = "countryName" -> {"", "All Countries", "C1"}
    [] control = "regionName" -> {"", "All Regions", "R1"}
    [] control = "affiliations" -> {{}, {"A1"}}

\* what the user types into the search field of the table
SearchInputs == {<<>>, <<"1", "a">>, <<" ", "B">>, <<"z">>}

\* the test of applyFilters
PassesFilters(item, filters) ==
  /\ filters.eventRegion # "" => item.eventRegion = filters.eventRegion
  /\ (filters.countryName # "" /\ filters.countryName # "All Countries")
       => item.country = filters.countryName
  /\ (filters.regionName # "" /\ filters.regionName # "All Regions")
       => item.region = filters.regionName
  /\ filters.affiliations # {} => filters.affiliations \cap item.affiliations # {}

applyFilters(data, filters) == SelectSeq(data, LAMBDA item : PassesFilters(item, filters))

\* rankData: a stable sort by score, highest first, and the rank of each
\* element (the element and its rank are one entry of filteredData)
RanksBefore(data, i, j) ==
  data[i].score > data[j].score \/ (data[i].score = data[j].score /\ i < j)

PlaceOf(data, i) == 1 + Cardinality({j \in 1..Len(data) : RanksBefore(data, j, i)})

rankData(data) ==
  [place \in 1..Len(data) |->
     [item |-> data[CHOOSE i \in 1..Len(data) : PlaceOf(data, i) = place], rank |-> place]]

\* the reference population of buildCustomTable
ContentAllScores(filtered) == [i \in 1..Len(filtered) |-> filtered[i].item.score]

\* updateStats: the panel keeps what it showed when no row is left
updateStats(filtered, shown) ==
  IF Len(filtered) = 0 THEN shown
  ELSE SummaryOf([i \in 1..Len(filtered) |-> filtered[i].item.score])

\* the rows buildCustomTable writes: every row is displayed
CustomRows(filtered) ==
  [i \in 1..Len(filtered) |->
     [team |-> filtered[i].item.team,
      rank |-> filtered[i].rank,
      score |-> filtered[i].item.score,
      percentile |-> contentGetPercentile(filtered[i].item.score,
                                          ContentAllScores(filtered)),
      search |-> toLowerCase(filtered[i].item.team \o <<" ">> \o filtered[i].item.teamName
                               \o <<" ">> \o filtered[i].item.organization),
      display |-> TRUE]]

NoCustomTable == [built |-> FALSE, rows |-> <<>>]
NoData == [isNull |-> TRUE, items |-> <<>>]
NoCall == [called |-> FALSE, score |-> 0, allScores |-> <<>>, value |-> 0]

\* reference populations of the event page: short lists of scores, and the
\* lists of `below` zeros followed by ones
ShortPopulations == SeqsUpTo(0..2, 2)

TwoLevels(size, below) == [i \in 1..size |-> IF i <= below THEN 0 ELSE 1]

Populations ==
  ShortPopulations
    \cup UNION {{TwoLevels(size, below) : below \in 0..size} : size \in 1..MaxPopulation}

\* the skills page before its data arrived
QuietPercentile ==
  /\ pPage = "skills"
  /\ allData = NoData
  /\ clientFilters = DefaultFilters
  /\ filteredData = <<>>
  /\ customTable = NoCustomTable
  /\ skStats = NoSummary
  /\ gpCall = NoCall
  /\ pOp = "none"

\* the skills page before its data arrived, or the event page about to call
\* getPercentile with a score and a reference population
InitPercentile ==
  /\ pPage \in {"skills", "event"}
  /\ allData = NoData
  /\ clientFilters = DefaultFilters
  /\ filteredData = <<>>
  /\ customTable = NoCustomTable
  /\ skStats = NoSummary
  /\ IF pPage = "skills" THEN gpCall = NoCall
     ELSE \E allScores \in Populations : \E score \in 0..2 :
            gpCall = [called |-> FALSE, score |-> score, allScores |-> allScores, value |-> 0]
  /\ pOp = "none"

\* refreshFilteredData with buildCustomTable, for the data and the filters
\* given
RefreshFilteredData(data, filters) ==
  IF data.isNull THEN UNCHANGED <<filteredData, customTable, skStats>>
  ELSE /\ filteredData' = rankData(applyFilters(data.items, filters))
       /\ customTable' =
            IF settings.useCustomTable
            THEN [built |-> TRUE, rows |-> CustomRows(filteredData')]
            ELSE customTable
       /\ skStats' = updateStats(filteredData', skStats)

\* fetchAllSkillsData with a response that is ok
FetchAllSkillsData(data) ==
  /\ pPage = "skills"
  /\ allData' = [isNull |-> FALSE, items |-> data]
  /\ RefreshFilteredData(allData', clientFilters)
  /\ pOp' = "fetch"
  /\ UNCHANGED <<pPage, clientFilters, gpCall>>
  /\ UNCHANGED exceptPercentile

\* the user changes one filter control of the page: onClientFilterChange,
\* once its timer has fired
ClientFilterChange(control, value) ==
  /\ pPage = "skills"
  /\ clientFilters[control] # value
  /\ clientFilters' = [clientFilters EXCEPT ![control] = value]
  /\ RefreshFilteredData(allData, clientFilters')
  /\ pOp' = "filter"
  /\ UNCHANGED <<pPage, allData, gpCall>>
  /\ UNCHANGED exceptPercentile

\* the input handler of the search field of the custom table
SearchInput(value) ==
  /\ pPage = "skills"
  /\ customTable.built
  /\ customTable' =
       [customTable EXCEPT !.rows =
          [i \in 1..Len(customTable.rows) |->
             [customTable.rows[i] EXCEPT !.display =
                \/ trim(toLowerCase(value)) = <<>>
                \/ includes(customTable.rows[i].search, trim(toLowerCase(value)))]]]
  /\ pOp' = "search"
  /\ UNCHANGED <<pPage, allData, clientFilters, filteredData, skStats, gpCall>>
  /\ UNCHANGED exceptPercentile

\* the call of getPercentile of event-page.js
CallGetPercentile ==
  /\ pPage = "event"
  /\ ~gpCall.called
  /\ gpCall' = [gpCall EXCEPT !.called = TRUE,
                               !.value = getPercentile(gpCall.score, gpCall.allScores)]
  /\ pOp' = "call"
  /\ UNCHANGED <<pPage, allData, clientFilters, filteredData, customTable, skStats>>
  /\ UNCHANGED exceptPercentile

NextPercentile ==
  \/ \E data \in ApiData : FetchAllSkillsData(data)
  \/ \E control \in FilterControls : \E value \in ControlValues(control) :
       ClientFilterChange(control, value)
  \/ \E value \in SearchInputs : SearchInput(value)
  \/ CallGetPercentile

(***************************************************************************)
(*                   Properties of the percentiles                         *)
(***************************************************************************)

\* round(100 * below / size), a half going up
RoundedShare(below, size) == (200 * below + size) \div (2 * size)

LargestOf(allScores) ==
  CHOOSE s \in {allScores[i] : i \in 1..Len(allScores)} :
    \A i \in 1..Len(allScores) : allScores[i] <= s

\* what the claim says of one call with a reference population that is not
\* empty
PercentileAsClaimed(score, allScores, value) ==
  /\ value = RoundedShare(CountBelow(score, allScores), Len(allScores))
  /\ value \in 0..100
  /\ (\A i \in 1..Len(allScores) : score < allScores[i]) => value = 0
  /\ \A i \in 1..Len(allScores) :
       getPercentile(allScores[i], allScores) <= getPercentile(LargestOf(allScores), allScores)

\* the reference population of the rows of the custom table
RowScores == [i \in 1..Len(customTable.rows) |-> customTable.rows[i].score]

\* C19: for every score and every reference population that is not empty,
\* getPercentile (of the event page, and of the skills page as the custom
\* table calls it) returns round(100 * below / size), where below counts the
\* scores of the population strictly below the score; the value is between 0
\* and 100, it is 0 for a score below every element, and no element of the
\* population gets more than the largest element gets.
C19_PercentileIsRoundedShare ==
  /\ (gpCall.called /\ gpCall.allScores # <<>>)
       => PercentileAsClaimed(gpCall.score, gpCall.allScores, gpCall.value)
  /\ \A i \in 1..Len(customTable.rows) :
       PercentileAsClaimed(customTable.rows[i].score, RowScores, customTable.rows[i].percentile)

\* C20: a change of a client-side filter or of the search text leaves the
\* percentile of every team that stays displayed as it was: the reference
\* population is the ranking data as a whole, not the rows that passed the
\* filters.
C20_PercentileUnchangedByFilterOrSearch ==
  [][(customTable.built /\ customTable'.built /\ allData' = allData)
       => \A i \in 1..Len(customTable.rows) : \A j \in 1..Len(customTable'.rows) :
            (/\ customTable.rows[i].team = customTable'.rows[j].team
             /\ customTable.rows[i].display
             /\ customTable'.rows[j].display)
              => customTable'.rows[j].percentile = customTable.rows[i].percentile]_vars

(***************************************************************************)
(*                 Properties of the summary statistics                    *)
(***************************************************************************)

\* the positions of the strictly positive scores
PositiveAt(rowScores) == {i \in 1..Len(rowScores) : rowScores[i] > 0}

\* the statistics the claim describes for the scores of the rows, when some
\* score is positive: m is the median when at most floor(n/2) positive
\* scores are below it and more than floor(n/2) are not above it
SummaryAsClaimed(rowScores, stats) ==
  LET n == Cardinality(PositiveAt(rowScores))
      below(m) == Cardinality({i \in PositiveAt(rowScores) : rowScores[i] < m})
      notAbove(m) == Cardinality({i \in PositiveAt(rowScores) : rowScores[i] <= m})
  IN n > 0 =>
       /\ stats.shown
       /\ stats.avg.count = n
       /\ stats.avg.total = reduceSum(rowScores, 1)
       /\ \E i \in PositiveAt(rowScores) : rowScores[i] = stats.max
       /\ \A i \in PositiveAt(rowScores) : rowScores[i] <= stats.max
       /\ \E i \in PositiveAt(rowScores) : rowScores[i] = stats.median
       /\ below(stats.median) <= n \div 2
       /\ notAbove(stats.median) > n \div 2

\* C21: the statistics of both pages use only the strictly positive scores
\* of the rows: the average and the maximum are taken over them, and the
\* median is the element at index floor(n/2) of the n positive scores in
\* ascending order, the upper-middle one for even n.
C21_StatisticsOverPositiveScores ==
  /\ mergedData.built
       => SummaryAsClaimed([i \in 1..Len(mergedData.rows) |-> mergedData.rows[i].score],
                           mergedData.stats)
  /\ Len(filteredData) > 0
       => SummaryAsClaimed([i \in 1..Len(filteredData) |-> filteredData[i].item.score],
                           skStats)

\* the skills page shows five teams with the scores 30, 10, 0, 40, 20: the
\* median of 10, 20, 30, 40 is 30
C21_Witness ==
  /\ pOp = "fetch"
  /\ Len(filteredData) = 5
  /\ filteredData[5].item.score = 0
  /\ skStats = [shown |-> TRUE, avg |-> [total |-> 100, count |-> 4], max |-> 40,
                median |-> 30]

(***************************************************************************)
(*                         init (event-page.js)                            *)
(***************************************************************************)

\* how the requests of one kind end: a success, a non-success status, a 429
\* at every attempt, a network failure at every attempt
RequestOutcomes == {"ok", "notOk", "rateLimited", "networkFailure"}

RequestKinds ==
  {"eventInfo", "eventSkills", "ranking", "eventAwards", "teamIds", "matches", "seasonAwards"}

NoOutcomes == [k \in RequestKinds |-> "none"]

\* what fetchWithRetry hands to its caller: the last 429 and a non-success
\* response are returned (response.ok is false), the last network error is
\* thrown
AfterRetries(o) == [threw |-> o = "networkFailure", ok |-> o = "ok"]

\* the try/catch of a fetcher around its request: an error is logged and the
\* fetcher returns its empty value (null, false, an empty map)
Guarded_rethrows(r) == r

Guarded(r) == [threw |-> FALSE, ok |-> ~r.threw /\ r.ok]

\* what the API holds for the event: two runs of 1A, and the ranking of 1A
\* and 2B
EventSkillsAtApi == <<EventItem("1A", "programming", 10), EventItem("1A", "driver", 20)>>
RankingAtApi == <<GlobalItem("1A", 50, 50, NullNumber), GlobalItem("2B", 30, 10, 20)>>

\* skillsData after fetchEventSkillsData and after fetchSkillsData, by the
\* usability of the response
EventSkillsMap(ok) == MapOf(IF ok THEN EventSkills(EventSkillsAtApi) ELSE EmptyObj)
GlobalSkillsMap(ok) == MapOf(IF ok THEN AddGlobalItems(EmptyObj, RankingAtApi) ELSE EmptyObj)

\* the aggregate fetchMatchData returns for a team with matches
SomeAggregate == [average |-> 12, max |-> 20, matchCount |-> 2]

\* teamsWithIds: the roster entries fetchTeamIds found an id for
TeamsWithIds == IF iOutcomes.teamIds = "ok" THEN {eventTeams[k] : k \in 1..Len(eventTeams)} ELSE {}

\* hasApiToken()
InitHasApiToken == HasToken(loadSettings(storage).value)

\* if (eventFinalized && eventId)
FinalizedWithId == eventFinalized /\ iEventId # 0

QuietEventInit ==
  /\ iPc = "idle"
  /\ iOutcomes = NoOutcomes
  /\ iEventId = 0
  /\ eventFinalized = FALSE
  /\ iRanking = "none"
  /\ captureButton = FALSE
  /\ iUncaught = FALSE

\* the script has been injected and init is called
InitEventInit ==
  /\ iPc = "start"
  /\ iOutcomes = NoOutcomes
  /\ iEventId = 0
  /\ eventFinalized = FALSE
  /\ iRanking = "none"
  /\ captureButton = FALSE
  /\ iUncaught = FALSE

\* what no step of init changes
exceptEventInit ==
  <<retryVars, matchVars, batchVars, skillVars, percentileVars, filterVars,
    storage, evOpen, competitionId, clearVisible, skOpen, settings, lastOp, lastInput,
    skRows, evRows, sortColumn, sortDirection, sectionFound>>

\* lines 1435-1446: the read of initSettings.hiddenAwards, outside every
\* try, then the 2 s wait and the one call of extractTeams
InitExtractTeams(roster) ==
  /\ iPc = "start"
  /\ IF loadSettings(storage).threw \/ loadSettings(storage).isNull
     THEN /\ iUncaught' = TRUE
          /\ iPc' = "done"
          /\ UNCHANGED <<eventTeams, pageRoster>>
     ELSE /\ eventTeams' = roster
          /\ pageRoster' = roster
          /\ iPc' = IF roster = <<>> THEN "button"
                    ELSE IF InitHasApiToken THEN "eventInfo" ELSE "skills"
          /\ UNCHANGED iUncaught
  /\ UNCHANGED <<iOutcomes, iEventId, eventFinalized, iRanking, captureButton>>
  /\ UNCHANGED <<skillsData, matchAverages, mergedData>>
  /\ UNCHANGED exceptEventInit

\* lines 1451-1462: fetchEventInfo in its own try
InitFetchEventInfo(o, finalized) ==
  /\ iPc = "eventInfo"
  /\ iOutcomes' = [iOutcomes EXCEPT !.eventInfo = o]
  /\ IF ~Guarded(AfterRetries(o)).threw /\ Guarded(AfterRetries(o)).ok
     THEN iEventId' = SomeEventId /\ eventFinalized' = finalized
     ELSE UNCHANGED <<iEventId, eventFinalized>>
  /\ iPc' = "skills"
  /\ UNCHANGED <<iRanking, captureButton, iUncaught>>
  /\ UNCHANGED <<eventTeams, pageRoster, skillsData, matchAverages, mergedData>>
  /\ UNCHANGED exceptEventInit

\* lines 1466-1473 on a finalized event: fetchEventSkillsData, and in the
\* catch of init fetchSkillsData; an error of the latter reaches the outer
\* catch of init
InitFetchEventSkills(o, o2) ==
  /\ iPc = "skills"
  /\ FinalizedWithId
  /\ IF ~Guarded(AfterRetries(o)).threw
     THEN /\ skillsData' = EventSkillsMap(Guarded(AfterRetries(o)).ok)
          /\ iRanking' = "event"
          /\ iOutcomes' = [iOutcomes EXCEPT !.eventSkills = o]
          /\ iPc' = "eventAwards"
     ELSE /\ skillsData' = GlobalSkillsMap(~Guarded(AfterRetries(o2)).threw
                                            /\ Guarded(AfterRetries(o2)).ok)
          /\ iRanking' = "global"
          /\ iOutcomes' = [iOutcomes EXCEPT !.eventSkills = o, !.ranking = o2]
          /\ iPc' = IF Guarded(AfterRetries(o2)).threw THEN "button" ELSE "eventAwards"
  /\ UNCHANGED <<iEventId, eventFinalized, captureButton, iUncaught>>
  /\ UNCHANGED <<eventTeams, pageRoster, matchAverages, mergedData>>
  /\ UNCHANGED exceptEventInit

\* lines 1475-1481: fetchEventAwards in its own try
InitFetchEventAwards(o) ==
  /\ iPc = "eventAwards"
  /\ iOutcomes' = [iOutcomes EXCEPT !.eventAwards = o]
  /\ iPc' = "table1"
  /\ UNCHANGED <<iEventId, eventFinalized, iRanking, captureButton, iUncaught>>
  /\ UNCHANGED <<eventTeams, pageRoster, skillsData, matchAverages, mergedData>>
  /\ UNCHANGED exceptEventInit

\* lines 1482-1489, an event that is not finalized or has no id:
\* fetchSkillsData in its own try; both grade levels are answered alike
InitFetchSkills(o) ==
  /\ iPc = "skills"
  /\ ~FinalizedWithId
  /\ skillsData' = GlobalSkillsMap(~Guarded(AfterRetries(o)).threw /\ Guarded(AfterRetries(o)).ok)
  /\ iRanking' = "global"
  /\ iOutcomes' = [iOutcomes EXCEPT !.ranking = o]
  /\ iPc' = "table1"
  /\ UNCHANGED <<iEventId, eventFinalized, captureButton, iUncaught>>
  /\ UNCHANGED <<eventTeams, pageRoster, matchAverages, mergedData>>
  /\ UNCHANGED exceptEventInit

\* lines 1492 and 1524-1527: buildEnhancedTable, first without and then
\* with the match aggregates
InitBuildTable ==
  /\ iPc \in {"table1", "table2"}
  /\ Rebuild(sortColumn, sortDirection)
  /\ iPc' = IF iPc = "table1" /\ InitHasApiToken THEN "teamIds" ELSE "button"
  /\ UNCHANGED <<iOutcomes, iEventId, eventFinalized, iRanking, captureButton, iUncaught>>
  /\ UNCHANGED <<eventTeams, pageRoster, skillsData, matchAverages>>
  /\ UNCHANGED exceptEventInit

\* lines 1498-1508: fetchTeamIds inside the try of the background part
InitFetchTeamIds(o) ==
  /\ iPc = "teamIds"
  /\ iOutcomes' = [iOutcomes EXCEPT !.teamIds = o]
  /\ iPc' = IF Guarded(AfterRetries(o)).threw THEN "button" ELSE "matches"
  /\ UNCHANGED <<iEventId, eventFinalized, iRanking, captureButton, iUncaught>>
  /\ UNCHANGED <<eventTeams, pageRoster, skillsData, matchAverages, mergedData>>
  /\ UNCHANGED exceptEventInit

\* lines 1510-1515: fetchAllMatchAverages over the teams with an id; every
\* team's request ends alike, and without such teams no request is made
InitFetchAllMatchAverages(o) ==
  /\ iPc = "matches"
  /\ IF TeamsWithIds = {}
     THEN /\ matchAverages' = MapOf(EmptyObj)
          /\ UNCHANGED iOutcomes
          /\ iPc' = IF eventFinalized THEN "table2" ELSE "seasonAwards"
     ELSE /\ matchAverages' = IF ~Guarded(AfterRetries(o)).threw /\ Guarded(AfterRetries(o)).ok
                              THEN MapOf([t \in TeamsWithIds |-> SomeAggregate])
                              ELSE MapOf(EmptyObj)
          /\ iOutcomes' = [iOutcomes EXCEPT !.matches = o]
          /\ iPc' = IF Guarded(AfterRetries(o)).threw THEN "button"
                    ELSE IF eventFinalized THEN "table2" ELSE "seasonAwards"
  /\ UNCHANGED <<iEventId, eventFinalized, iRanking, captureButton, iUncaught>>
  /\ UNCHANGED <<eventTeams, pageRoster, skillsData, mergedData>>
  /\ UNCHANGED exceptEventInit

\* lines 1517-1521: fetchAllSeasonAwards when the event is not finalized
InitFetchAllSeasonAwards(o) ==
  /\ iPc = "seasonAwards"
  /\ IF TeamsWithIds = {}
     THEN UNCHANGED iOutcomes /\ iPc' = "table2"
     ELSE /\ iOutcomes' = [iOutcomes EXCEPT !.seasonAwards = o]
          /\ iPc' = IF Guarded(AfterRetries(o)).threw THEN "button" ELSE "table2"
  /\ UNCHANGED <<iEventId, eventFinalized, iRanking, captureButton, iUncaught>>
  /\ UNCHANGED <<eventTeams, pageRoster, skillsData, matchAverages, mergedData>>
  /\ UNCHANGED exceptEventInit

\* lines 1538-1544: createCaptureButton and checkExistingCapture in the last
\* try of init
InitCreateCaptureButton ==
  /\ iPc = "button"
  /\ captureButton' = TRUE
  /\ iPc' = "done"
  /\ UNCHANGED <<iOutcomes, iEventId, eventFinalized, iRanking, iUncaught>>
  /\ UNCHANGED <<eventTeams, pageRoster, skillsData, matchAverages, mergedData>>
  /\ UNCHANGED exceptEventInit

NextEventInit ==
  \/ \E roster \in Rosters : InitExtractTeams(roster)
  \/ \E o \in RequestOutcomes, finalized \in BOOLEAN : InitFetchEventInfo(o, finalized)
  \/ \E o \in RequestOutcomes, o2 \in RequestOutcomes : InitFetchEventSkills(o, o2)
  \/ \E o \in RequestOutcomes : InitFetchEventAwards(o)
  \/ \E o \in RequestOutcomes : InitFetchSkills(o)
  \/ InitBuildTable
  \/ \E o \in RequestOutcomes : InitFetchTeamIds(o)
  \/ \E o \in RequestOutcomes : InitFetchAllMatchAverages(o)
  \/ \E o \in RequestOutcomes : InitFetchAllSeasonAwards(o)
  \/ InitCreateCaptureButton

(***************************************************************************)
(*                          Properties of init                             *)
(***************************************************************************)

FailedOutcomes == {"notOk", "rateLimited", "networkFailure"}

\* C23: whatever way the event-info, ranking, team-id, match and award
\* requests end, no exception leaves init; when init has ended the capture
\* button exists and, for a page with teams, every step has been taken (a
\* failed request stops no later one) and the table shows the data obtained;
\* and init does end with the button created.
C23_InitCompletes ==
  /\ [](~iUncaught)
  /\ [](iPc = "done" =>
          /\ captureButton
          /\ eventTeams # <<>> =>
               /\ iRanking # "none"
               /\ mergedData.built
               /\ mergedData.rows = BuiltRows(eventTeams, sortColumn, sortDirection)
               /\ InitHasApiToken =>
                    /\ iOutcomes.eventInfo # "none"
                    /\ iOutcomes.teamIds # "none"
                    /\ ~matchAverages.isNull
                    /\ FinalizedWithId => iOutcomes.eventAwards # "none"
                    /\ TeamsWithIds # {} => iOutcomes.matches # "none"
                    /\ (TeamsWithIds # {} /\ ~eventFinalized) => iOutcomes.seasonAwards # "none")
  /\ <>(iPc = "done" /\ captureButton)

\* init has ended on a finalized event whose skills and awards requests
\* failed, as did the match requests of the teams found
C23_Witness ==
  /\ iPc = "done"
  /\ captureButton
  /\ mergedData.built
  /\ iOutcomes.eventInfo = "ok"
  /\ iOutcomes.eventSkills = "networkFailure"
  /\ iOutcomes.eventAwards = "rateLimited"
  /\ iOutcomes.teamIds = "ok"
  /\ iOutcomes.matches = "notOk"

\* C24: on a finalized event, once the fetch of the event's skills has
\* failed (a network failure after the retries, or a response that is not
\* ok), the global ranking has been fetched, and the ranking map is the
\* global one when that fetch succeeded.
C24_FallsBackToGlobalSkills ==
  (FinalizedWithId /\ iOutcomes.eventSkills \in FailedOutcomes) =>
     /\ iRanking = "global"
     /\ iOutcomes.ranking # "none"
     /\ iOutcomes.ranking = "ok" => skillsData = GlobalSkillsMap(TRUE)

(***************************************************************************)
(*      Filter listeners and fetchAllSkillsData (content.js)               *)
(***************************************************************************)

\* most filter changes the user makes
MaxChanges == 3

\* the values of the two server-side controls: the post_season checkbox
\* and the grade_level select
ServerFilters == [post_season : {0, 1}, grade_level : {"Elementary", "Middle School"}]

\* buildApiUrl(): the query of a request, from the controls as they are
\* when the request is made
buildApiUrl(controls) == controls

QuietFilter ==
  /\ fFilters = [post_season |-> 0, grade_level |-> "Elementary"]
  /\ debounceTimer = "none"
  /\ fChanges = 0
  /\ fRequests = <<>>
  /\ fAnswers = <<>>
  /\ fStale = FALSE
  /\ fHeld = 0

\* init of content.js has called fetchAllSkillsData and setupFilterListeners:
\* the first request is on its way
InitFilter ==
  /\ fFilters \in ServerFilters
  /\ debounceTimer = "none"
  /\ fChanges = 0
  /\ fRequests = <<buildApiUrl(fFilters)>>
  /\ fAnswers = <<"pending">>
  /\ fStale = FALSE
  /\ fHeld = 0

\* a change event of post_season or grade_level: onServerFilterChange
\* replaces the timer by one that refetches after 500 ms
OnServerFilterChange(control, value) ==
  /\ fChanges < MaxChanges
  /\ fFilters[control] # value
  /\ fFilters' = [fFilters EXCEPT ![control] = value]
  /\ debounceTimer' = "fetch"
  /\ fStale' = TRUE
  /\ fChanges' = fChanges + 1
  /\ UNCHANGED <<fRequests, fAnswers, fHeld>>
  /\ UNCHANGED exceptFilter

\* a change event of a client-side control: onClientFilterChange replaces
\* the same timer by one that refreshes after 300 ms
OnClientFilterChange ==
  /\ fChanges < MaxChanges
  /\ debounceTimer' = "refresh"
  /\ fChanges' = fChanges + 1
  /\ UNCHANGED <<fFilters, fRequests, fAnswers, fStale, fHeld>>
  /\ UNCHANGED exceptFilter

\* the pending timer fires: fetchAllSkillsData up to its await of fetch, or
\* refreshFilteredData over the data held
DebounceTimerFires ==
  /\ debounceTimer # "none"
  /\ IF debounceTimer = "fetch"
     THEN /\ fRequests' = Append(fRequests, buildApiUrl(fFilters))
          /\ fAnswers' = Append(fAnswers, "pending")
          /\ fStale' = FALSE
     ELSE UNCHANGED <<fRequests, fAnswers, fStale>>
  /\ debounceTimer' = "none"
  /\ UNCHANGED <<fFilters, fChanges, fHeld>>
  /\ UNCHANGED exceptFilter

\* the rest of fetchAllSkillsData for request k: an ok response replaces
\* allData and the table is refreshed; otherwise the error is logged
SkillsResponseArrives(k, ok) ==
  /\ k \in 1..Len(fAnswers)
  /\ fAnswers[k] = "pending"
  /\ fAnswers' = [fAnswers EXCEPT ![k] = IF ok THEN "ok" ELSE "error"]
  /\ fHeld' = IF ok THEN k ELSE fHeld
  /\ UNCHANGED <<fFilters, debounceTimer, fChanges, fRequests, fStale>>
  /\ UNCHANGED exceptFilter

NextFilter ==
  \/ \E value \in {0, 1} : OnServerFilterChange("post_season", value)
  \/ \E value \in {"Elementary", "Middle School"} : OnServerFilterChange("grade_level", value)
  \/ OnClientFilterChange
  \/ DebounceTimerFires
  \/ \E k \in 1..(MaxChanges + 1), ok \in BOOLEAN : SkillsResponseArrives(k, ok)

(***************************************************************************)
(*                  Properties of the filter listeners                     *)
(***************************************************************************)

\* C26: after a change of a server-side filter a request for the skills
\* data is issued with the values the controls then have, whatever filter
\* changes follow, client-side ones within the delay included.
C26_ServerFilterChangeRefetches ==
  fStale ~> (~fStale /\ fRequests[Len(fRequests)] = fFilters)

\* C27: once no request is pending, the data held and shown is the
\* response of the request issued last, if that response was usable, in
\* whatever order the responses arrived.
C27_LaterRequestWins ==
  (Len(fRequests) >= 2 /\ \A k \in 1..Len(fAnswers) : fAnswers[k] # "pending") =>
     (fAnswers[Len(fAnswers)] = "ok" => fHeld = Len(fRequests))

(***************************************************************************)
(*                            Specifications                               *)
(***************************************************************************)

\* the fetchWithRetry state machine alone: the pages stay closed
InitSpecRetry ==
  InitRetry /\ QuietStore /\ QuietTable /\ QuietMatch /\ QuietBatch /\ QuietSkills
    /\ QuietPercentile
    /\ QuietEventInit
    /\ QuietFilter

SpecRetry == InitSpecRetry /\ [][NextRetry]_vars

\* the two pages over the Settings Store: no fetch is in progress
InitSpecStore ==
  InitStore /\ InitRetry /\ QuietTable /\ QuietMatch /\ QuietBatch /\ QuietSkills
    /\ QuietPercentile
    /\ QuietEventInit
    /\ QuietFilter

SpecStore == InitSpecStore /\ [][NextStore]_vars

\* the event page of a competition whose teams table may be rendered after
\* init has looked for it
SpecCapture == InitSpecStore /\ [][NextCapture]_vars

\* the event page's table for a roster and maps that init has obtained
InitSpecTable ==
  /\ InitRetry
  /\ storage = Absent
  /\ evOpen = FALSE
  /\ competitionId = "X"
  /\ eventTeams \in TableRosters
  /\ pageRoster = eventTeams
  /\ clearVisible = FALSE
  /\ skOpen = FALSE
  /\ settings = InitialSettings
  /\ lastOp = Op("none", "none", FALSE)
  /\ lastInput = <<>>
  /\ skRows = NoRows
  /\ evRows = <<>>
  /\ InitTable
  /\ QuietMatch
  /\ QuietBatch
  /\ QuietSkills
  /\ QuietPercentile
  /\ QuietEventInit
  /\ QuietFilter

SpecTable == InitSpecTable /\ [][NextTable]_vars

\* one call of fetchMatchData, for a response and stored settings
InitSpecMatch ==
  /\ InitRetry
  /\ storage \in {JSONstringify(obj) : obj \in MatchSettings}
  /\ evOpen = TRUE
  /\ competitionId = "X"
  /\ eventTeams = <<"1A">>
  /\ pageRoster = <<"1A">>
  /\ clearVisible = FALSE
  /\ skOpen = FALSE
  /\ settings = InitialSettings
  /\ lastOp = Op("event", "init", FALSE)
  /\ lastInput = <<>>
  /\ skRows = NoRows
  /\ evRows = <<>>
  /\ QuietTable
  /\ InitMatch
  /\ QuietBatch
  /\ QuietSkills
  /\ QuietPercentile
  /\ QuietEventInit
  /\ QuietFilter

SpecMatch == InitSpecMatch /\ [][NextMatch]_vars

\* one run of fetchAllMatchAverages or fetchAllSeasonAwards over a list of
\* teams, with or without a stored token
InitSpecBatch ==
  /\ InitRetry
  /\ storage \in {Absent, JSONstringify(EmptyObj), JSONstringify([apiToken |-> "T1"])}
  /\ evOpen = TRUE
  /\ competitionId = "X"
  /\ eventTeams = <<"1A">>
  /\ pageRoster = <<"1A">>
  /\ clearVisible = FALSE
  /\ skOpen = FALSE
  /\ settings = InitialSettings
  /\ lastOp = Op("event", "init", FALSE)
  /\ lastInput = <<>>
  /\ skRows = NoRows
  /\ evRows = <<>>
  /\ QuietTable
  /\ QuietMatch
  /\ InitBatch
  /\ QuietSkills
  /\ QuietPercentile
  /\ QuietEventInit
  /\ QuietFilter

SpecBatch == InitSpecBatch /\ [][NextBatch]_vars

\* one call of fetchSkillsData or fetchEventSkillsData from init
InitSpecSkills ==
  /\ InitRetry
  /\ storage \in {JSONstringify(EmptyObj), JSONstringify([apiToken |-> "T1"])}
  /\ evOpen = TRUE
  /\ competitionId = "X"
  /\ eventTeams = <<"1A">>
  /\ pageRoster = <<"1A">>
  /\ clearVisible = FALSE
  /\ skOpen = FALSE
  /\ settings = InitialSettings
  /\ lastOp = Op("event", "init", FALSE)
  /\ lastInput = <<>>
  /\ skRows = NoRows
  /\ evRows = <<>>
  /\ QuietMatch
  /\ QuietBatch
  /\ InitSkills
  /\ QuietPercentile
  /\ QuietEventInit
  /\ QuietFilter

SpecSkills == InitSpecSkills /\ [][NextSkills]_vars

\* the skills page showing its custom table, or the event page calling
\* getPercentile
InitSpecPercentile ==
  /\ InitRetry
  /\ storage = Absent
  /\ evOpen = FALSE
  /\ competitionId = "X"
  /\ eventTeams = <<>>
  /\ pageRoster = <<>>
  /\ clearVisible = FALSE
  /\ skOpen = FALSE
  /\ settings = InitialSettings
  /\ lastOp = Op("none", "none", FALSE)
  /\ lastInput = <<>>
  /\ skRows = NoRows
  /\ evRows = <<>>
  /\ QuietTable
  /\ QuietMatch
  /\ QuietBatch
  /\ QuietSkills
  /\ InitPercentile
  /\ QuietEventInit
  /\ QuietFilter

SpecPercentile == InitSpecPercentile /\ [][NextPercentile]_vars

\* init of the event page, from the call of init to its end; the stored
\* document is one the extension writes, or none
InitSpecEventInit ==
  /\ InitRetry
  /\ storage \in {Absent, JSONstringify(EmptyObj), JSONstringify([apiToken |-> "T1"])}
  /\ evOpen = FALSE
  /\ competitionId = "X"
  /\ eventTeams = <<>>
  /\ pageRoster = <<>>
  /\ clearVisible = FALSE
  /\ skOpen = FALSE
  /\ settings = InitialSettings
  /\ lastOp = Op("none", "none", FALSE)
  /\ lastInput = <<>>
  /\ skRows = NoRows
  /\ evRows = <<>>
  /\ skillsData = NoMap
  /\ matchAverages = NoMap
  /\ sortColumn = "score"
  /\ sortDirection = "desc"
  /\ sectionFound = TRUE
  /\ mergedData = NoTable
  /\ QuietMatch
  /\ QuietBatch
  /\ QuietSkills
  /\ QuietPercentile
  /\ InitEventInit
  /\ QuietFilter

SpecEventInit == InitSpecEventInit /\ [][NextEventInit]_vars

\* every await of init is resolved or rejected (fetchWithRetry ends after
\* its last attempt), and the continuation is then run
SpecEventInitFair == SpecEventInit /\ WF_vars(NextEventInit)

\* the skills page after its init, with the user changing filters
InitSpecFilter ==
  /\ InitRetry
  /\ QuietStore
  /\ QuietTable
  /\ QuietMatch
  /\ QuietBatch
  /\ QuietSkills
  /\ QuietPercentile
  /\ QuietEventInit
  /\ InitFilter

SpecFilter == InitSpecFilter /\ [][NextFilter]_vars

\* a timer that is not cleared fires, and every fetch is settled
SpecFilterFair ==
  /\ SpecFilter
  /\ WF_vars(DebounceTimerFires)
  /\ WF_vars(\E k \in 1..(MaxChanges + 1), ok \in BOOLEAN : SkillsResponseArrives(k, ok))

====
